---- MODULE Spec2Model ----
(***************************************************************************)
(* A model of the agentic advertisement generator: the six-step workflow   *)
(* orchestrator (src/src/orchestrator/workflow_orchestrator.py) and the    *)
(* contract logic of its agents (src/src/agents/*.py).                     *)
(*                                                                         *)
(* Specifications:                                                         *)
(*   Spec      calls of generate_advertisement made one after another on   *)
(*             one WorkflowOrchestrator instance                            *)
(*   FairSpec  Spec, with every delegated call returning or raising        *)
(*   ConcSpec  two overlapping calls on one instance                        *)
(*   ParseSpec the agents' parse routines applied to model responses       *)
(*   StepSpec  one agent's process, from input validation to its output    *)
(*   FillSpec  the default-fill of ScriptAnalyzerAgent.process             *)
(***************************************************************************)
EXTENDS Integers, Sequences, FiniteSets, TLC

VARIABLES
  state,           \* self.state of the orchestrator: one dict per instance
  calls,           \* number of generate_advertisement calls started so far
  pc,              \* per call: the statement the call is at
  locals,          \* per call: the step outputs held in local variables
  exc,             \* per call: the exception in flight, if any
  log,             \* per call: the agent invocations, returns and raises
  result,          \* per call: the value the call returned
  workflow_files,  \* the documents written under data/output/workflows
  p_response,      \* the text a model call returned
  p_stage,         \* "response", "parsed" or "post" ("off" outside ParseSpec)
  p_agent,         \* the agent that parses the response
  p_parsed,        \* what the agent's parse routine did
  p_post,          \* what the agent's process did with the parsed value
  a_step,          \* the step whose process runs on its own (0 outside StepSpec)
  a_input,         \* the fields its input_data holds
  a_pc,            \* pending, input_validated, delegated_call_issued, done, failed
  a_next,          \* the delegated call of its plan that comes next
  a_calls,         \* the delegated calls it has issued, in order
  a_error,         \* the exception it raised, if any
  a_output,        \* the output it returned, if any
  f_analysis,      \* the analysis dict of ScriptAnalyzerAgent.process
  f_input,         \* the input_data of that call
  f_original,      \* the analysis as the parse routine returned it
  f_once,          \* the analysis after the default-fill ran once
  f_count,         \* how often the default-fill has run
  t_target,        \* the target_duration of the run
  t_analysis,      \* the analysis json.loads built from the model response
  t_stage,         \* "parsed", "validated", "returned" or "result"
  t_outcome,       \* what _validate_timing did with the analysis
  t_output,        \* what ScriptAnalyzerAgent.process returned
  t_scenes,        \* metadata.scenes of the run's success result
  q_input,         \* what QAAgent.process finds: the file, the probe, the rubric
  q_stage,         \* "input", "report", "raised" or "result"
  q_calls,         \* the delegated calls QAAgent.process has issued
  q_report,        \* the report QAAgent.process returned
  q_result,        \* the success result built from the report
  v_size,          \* (w, h) of the image clip handed to _fit_to_1080p
  v_stage,         \* "clip" or "fitted"
  v_resized,       \* (w, h) of the clip after clip.resize(scale)
  v_frame,         \* (w, h) of the clip _fit_to_1080p returns
  c_scenes,        \* the scenes handed to _create_video_clips
  c_scene_matches, \* scene_visuals["scene_matches"]
  c_image_analysis, \* the image_analysis of the visual designer
  c_files,         \* the paths os.path.exists finds
  c_stage,         \* "input" or "done"
  c_clips,         \* what _create_video_clips did
  w_clock,         \* the wall clock, in half seconds
  w_at,            \* per run: how many of its three writes it has done
  w_written,       \* per run: the file paths it has written
  w_stamps,        \* per run: the timestamps its file names were made of
  r_analysis,      \* what the script analyzer's parse routine returned
  r_scene_visuals, \* what the visual designer's parse routine returned
  r_files,         \* the image paths os.path.exists finds
  r_at,            \* the step the run is at, or "done"
  r_scenes,        \* the local variable scenes of generate_advertisement
  r_outputs,       \* state["outputs"] of the run
  r_result         \* how the run ended

orchVars == <<state, calls, pc, locals, exc, log, result, workflow_files>>

parseVars == <<p_response, p_stage, p_agent, p_parsed, p_post>>

stepVars == <<a_step, a_input, a_pc, a_next, a_calls, a_error, a_output>>

fillVars == <<f_analysis, f_input, f_original, f_once, f_count>>

timingVars == <<t_target, t_analysis, t_stage, t_outcome, t_output, t_scenes>>

qaVars == <<q_input, q_stage, q_calls, q_report, q_result>>

fitVars == <<v_size, v_stage, v_resized, v_frame>>

\* The variables of the specifications of single routines.
clipVars == <<c_scenes, c_scene_matches, c_image_analysis, c_files, c_stage, c_clips>>

pathVars == <<w_clock, w_at, w_written, w_stamps>>

flowVars == <<r_analysis, r_scene_visuals, r_files, r_at, r_scenes, r_outputs, r_result>>

pureVars == <<timingVars, qaVars, fitVars, clipVars, pathVars, flowVars>>

\* What the actions of one such specification leave alone.
timingRest ==
  <<orchVars, parseVars, stepVars, fillVars, qaVars, fitVars, clipVars, pathVars,
    flowVars>>

qaRest ==
  <<orchVars, parseVars, stepVars, fillVars, timingVars, fitVars, clipVars, pathVars,
    flowVars>>

fitRest ==
  <<orchVars, parseVars, stepVars, fillVars, timingVars, qaVars, clipVars, pathVars,
    flowVars>>

clipRest ==
  <<orchVars, parseVars, stepVars, fillVars, timingVars, qaVars, fitVars, pathVars,
    flowVars>>

pathRest ==
  <<orchVars, parseVars, stepVars, fillVars, timingVars, qaVars, fitVars, clipVars,
    flowVars>>

flowRest ==
  <<orchVars, parseVars, stepVars, fillVars, timingVars, qaVars, fitVars, clipVars,
    pathVars>>

\* Everything but the orchestrator's variables.
agentVars == <<parseVars, stepVars, fillVars, pureVars>>

vars == <<orchVars, parseVars, stepVars, fillVars, pureVars>>

(***************************************************************************)
(* Bounds.                                                                 *)
(***************************************************************************)
\* Calls of generate_advertisement made on the one orchestrator instance.
MaxCalls == 2

CallIds == 1..MaxCalls

\* Tokens of a model response between its opening and its closing.
MaxBody == 3

\* How often the default-fill is applied to one analysis.
MaxFills == 2

\* Scenes in the analysis handed to _validate_timing and in the list handed
\* to _create_video_clips.
MaxScenes == 2

\* Entries of scene_visuals["scene_matches"].
MaxMatches == 2

\* Half seconds the wall clock advances while two runs write their files.
MaxTicks == 3

\* The two calls that overlap under ConcSpec.
ConcCallIds == {1, 2}

(***************************************************************************)
(* The six steps, in the order of the source text.                         *)
(***************************************************************************)
NumSteps == 6

Steps == 1..NumSteps

\* The value written to state["current_step"] before step k.
StepName(k) ==
  CASE k = 1 -> "creative_direction"
    [] k = 2 -> "script_analysis"
    [] k = 3 -> "visual_design"
    [] k = 4 -> "audio_production"
    [] k = 5 -> "video_editing"
    [] k = 6 -> "quality_assurance"

\* The key of state["outputs"] step k's output is stored under.
OutputKey(k) ==
  CASE k = 1 -> "creative_brief"
    [] k = 2 -> "script_analysis"
    [] k = 3 -> "visual_design"
    [] k = 4 -> "audio_output"
    [] k = 5 -> "video_output"
    [] k = 6 -> "qa_result"

(***************************************************************************)
(* Program points of generate_advertisement.                               *)
(*   idle     not called yet                                                *)
(*   set k    about to assign state["current_step"] for step k             *)
(*   call k   about to build step k's input and call the agent's process   *)
(*   in k     inside the agent's process (a synchronous, blocking call)    *)
(*   store k  process returned; about to assign state["outputs"][key]      *)
(*   save     about to call _save_workflow_state(result)                   *)
(*   except   in the handler of the enclosing try                          *)
(*   done     returned a result                                            *)
(*   escaped  ended by an exception that reached the caller                *)
(***************************************************************************)
At(at, k) == [at |-> at, k |-> k]

\* The statements inside the try block (lines 60-181).
TryBlockWithoutSave == {"set", "call", "in", "store"}

TryBlock == {"set", "call", "in", "store", "save"}

\* Where an exception raised at program point `at` takes the call.
HandlerFor(at) == IF at \in TryBlock THEN At("except", 0) ELSE At("escaped", 0)

\* The statement after step k's output was stored.
AfterStoreSkipsAudio(k) ==
  IF k = 3 THEN At("set", 5) ELSE IF k < NumSteps THEN At("set", k + 1) ELSE At("save", 0)

AfterStore(k) == IF k < NumSteps THEN At("set", k + 1) ELSE At("save", 0)

(***************************************************************************)
(* self.state, as __init__ builds it (lines 35-40).  outputs is a dict:    *)
(* a sequence of <<key, value>> in insertion order.                        *)
(***************************************************************************)
InitialState ==
  [status |-> "initialized", current_step |-> "None", outputs |-> <<>>, errors |-> <<>>]

Keys(outputs) == [i \in 1..Len(outputs) |-> outputs[i][1]]

HasKey(outputs, key) == \E i \in 1..Len(outputs) : outputs[i][1] = key

\* d[key] = value on a dict: a new key goes last, an old key keeps its place.
DictSetPrepends(outputs, key, value) ==
  IF HasKey(outputs, key)
  THEN [i \in 1..Len(outputs) |->
          IF outputs[i][1] = key THEN <<key, value>> ELSE outputs[i]]
  ELSE <<(<<key, value>>)>> \o outputs

DictSet(outputs, key, value) ==
  IF HasKey(outputs, key)
  THEN [i \in 1..Len(outputs) |->
          IF outputs[i][1] = key THEN <<key, value>> ELSE outputs[i]]
  ELSE Append(outputs, <<key, value>>)

(***************************************************************************)
(* What an agent's process can do to the orchestrator: return an output or *)
(* raise.  Of an output the orchestrator reads only whether it can go on:  *)
(*   step 1: usable = the creative brief is a mapping (line 110 calls      *)
(*           creative_brief.get; CreativeDirectorAgent.process returns a   *)
(*           JSON array as it is when the array holds all nine key names)  *)
(*   step 2: usable = len(scenes) is defined (line 87; false for           *)
(*           {"scenes": 5})                                                *)
(* Every output carries the call that produced it.                         *)
(***************************************************************************)
StepOutput(c, k, usable) == [call |-> c, step |-> k, usable |-> usable]

Returns(k) == IF k \in {1, 2} THEN BOOLEAN ELSE {TRUE}

NoException == [kind |-> "none", step |-> 0, call |-> 0]

\* An exception raised by step k's process.
StepError(c, k) == [kind |-> "step", step |-> k, call |-> c]

\* An exception raised by the orchestrator's own statement around step k.
GlueError(c, k) == [kind |-> "glue", step |-> k, call |-> c]

\* An exception raised by _save_workflow_state.
SaveError(c) == [kind |-> "save", step |-> 0, call |-> c]

NoResult == [success |-> FALSE, returned |-> FALSE, error |-> NoException,
             carries_state |-> FALSE]

\* Lines 164-176: the success result.
SuccessResult ==
  [success |-> TRUE, returned |-> TRUE, error |-> NoException, carries_state |-> FALSE]

\* Lines 187-191: the failure result; "state" is self.state itself, not a copy.
FailureResult(e) ==
  [success |-> FALSE, returned |-> TRUE, error |-> e, carries_state |-> TRUE]

(***************************************************************************)
(* JSON values, as json.loads builds them.  Numbers are held in            *)
(* thousandths (30 seconds is 30000, a score of 0.5 is 500).               *)
(***************************************************************************)
JNull == [type |-> "null"]

JNum(n) == [type |-> "number", n |-> n]

JStr(str) == [type |-> "string", s |-> str]

\* A string holding a model response verbatim.
JRaw(text) == [type |-> "string", raw |-> text]

JArr(items) == [type |-> "array", items |-> items]

JObj(members) == [type |-> "object", members |-> members]

EmptyObj == JObj(<<>>)

IsDict(v) == v.type = "object"

IsList(v) == v.type = "array"

\* isinstance(v, (int, float))
IsNumber(v) == v.type = "number"

\* key in d, for a dict d
HasMember(d, key) == key \in DOMAIN d.members

\* d.get(key): None when the key is absent
Get(d, key) == IF HasMember(d, key) THEN d.members[key] ELSE JNull

\* d.get(key, default)
GetOr(d, key, default) == IF HasMember(d, key) THEN d.members[key] ELSE default

\* d[key] = value
SetItem(d, key, value) ==
  JObj([k \in (DOMAIN d.members) \cup {key} |-> IF k = key THEN value ELSE d.members[k]])

\* d.setdefault(key, default), overwriting a key already there
SetDefaultOverwrites(d, key, default) == SetItem(d, key, default)

\* d.setdefault(key, default): a key already there keeps its value
SetDefault(d, key, default) == IF HasMember(d, key) THEN d ELSE SetItem(d, key, default)

\* What a call can do: return a value or raise.  warned: a warning was logged.
Returned(v) == [raised |-> FALSE, exc |-> "none", value |-> v, warned |-> FALSE]

\* a return that logs nothing
ReturnedSilently(v) == [raised |-> FALSE, exc |-> "none", value |-> v, warned |-> FALSE]

ReturnedWithWarning(v) == [raised |-> FALSE, exc |-> "none", value |-> v, warned |-> TRUE]

Raised(e) == [raised |-> TRUE, exc |-> e, value |-> JNull, warned |-> FALSE]

(***************************************************************************)
(* ScriptAnalyzerAgent._validate_timing (script_analyzer.py 151-180).      *)
(***************************************************************************)
Abs(x) == IF x < 0 THEN -x ELSE x

\* round(x, 2) of a value in thousandths: to the nearest hundredth, a tie
\* going to the even hundredth.
Round2(x) ==
  LET q == x \div 10
      r == x % 10
  IN IF r < 5 THEN 10 * q
     ELSE IF r > 5 THEN 10 * (q + 1)
     ELSE IF q % 2 = 0 THEN 10 * q ELSE 10 * (q + 1)

\* The tolerance of lines 168 and 174: 1.0 second.
TimingTolerance == 1000

\* Lines 160-165: the sum of the numeric durations.
RECURSIVE SumDurations(_)
SumDurations(scenes) ==
  IF scenes = <<>> THEN 0
  ELSE LET d == Get(Head(scenes), "duration")
       IN (IF IsNumber(d) THEN d.n ELSE 0) + SumDurations(Tail(scenes))

\* the adjustment with the sign of delta turned round
AdjustLastSubtracts(last, delta) ==
  IF ~IsNumber(Get(last, "duration")) THEN last
  ELSE LET duration == Round2(Get(last, "duration").n - delta)
           adjusted == SetItem(last, "duration", JNum(duration))
       IN IF IsNumber(Get(last, "start_time"))
          THEN SetItem(adjusted, "end_time",
                       JNum(Round2(Get(last, "start_time").n + duration)))
          ELSE adjusted

\* the adjustment, with a scene never made shorter than it is long
AdjustLastFloored(last, delta) ==
  IF ~IsNumber(Get(last, "duration")) THEN last
  ELSE LET sum == Round2(Get(last, "duration").n + delta)
           duration == IF sum < 0 THEN 0 ELSE sum
           adjusted == SetItem(last, "duration", JNum(duration))
       IN IF IsNumber(Get(last, "start_time"))
          THEN SetItem(adjusted, "end_time",
                       JNum(Round2(Get(last, "start_time").n + duration)))
          ELSE adjusted

\* Lines 176-180: the last scene, adjusted by delta.
AdjustLast(last, delta) ==
  IF ~IsNumber(Get(last, "duration")) THEN last
  ELSE LET duration == Round2(Get(last, "duration").n + delta)
           adjusted == SetItem(last, "duration", JNum(duration))
       IN IF IsNumber(Get(last, "start_time"))
          THEN SetItem(adjusted, "end_time",
                       JNum(Round2(Get(last, "start_time").n + duration)))
          ELSE adjusted

\* "scenes" in analysis raises TypeError unless analysis is a container.
ValidateTiming(analysis) ==
  IF analysis.type \in {"number", "null"} THEN Raised("TypeError")
  ELSE IF IsList(analysis)
  THEN IF \E i \in 1..Len(analysis.items) : analysis.items[i] = JStr("scenes")
       THEN Raised("TypeError")          \* analysis["scenes"] on a list
       ELSE Returned(analysis)
  ELSE IF ~IsDict(analysis) THEN Returned(analysis)
  ELSE IF ~HasMember(analysis, "scenes") \/ ~IsList(Get(analysis, "scenes"))
  THEN Returned(analysis)
  ELSE IF ~IsNumber(Get(analysis, "total_duration")) THEN Returned(analysis)
  ELSE LET scenes == Get(analysis, "scenes").items
           target == Get(analysis, "total_duration").n
       IN IF \E i \in 1..Len(scenes) : ~IsDict(scenes[i])
          THEN Raised("AttributeError")  \* s.get on a scene that is no dict
          ELSE LET total == SumDurations(scenes)
               IN IF Abs(total - target) > TimingTolerance
                  THEN ReturnedWithWarning(analysis)
                  ELSE IF scenes = <<>> THEN Returned(analysis)
                  ELSE Returned(SetItem(analysis, "scenes",
                         JArr([i \in 1..Len(scenes) |->
                                 IF i = Len(scenes)
                                 THEN AdjustLast(scenes[i], target - total)
                                 ELSE scenes[i]])))

(***************************************************************************)
(* Model responses.  A response is a sequence of tokens:                   *)
(*   "fence"  a markdown fence, ```     "json"   the fence's language tag   *)
(*   " "      a run of whitespace       "prose"  a word that is not JSON    *)
(*   "{" "}" "[" "]"  one character     "null"   the JSON literal null      *)
(*   "M1" "M2"  the members of an object, written out without the outer    *)
(*              braces (Members below)                                     *)
(* An array holds at most one element: no token stands for a comma.  Two   *)
(* tokens side by side never read as one longer token.                     *)
(***************************************************************************)
Scene(id, start, end, duration) ==
  JObj([scene_id |-> JStr(id), start_time |-> JNum(start), end_time |-> JNum(end),
        duration |-> JNum(duration)])

PayloadTokens == {"M1", "M2"}

\* M1: "total_duration": 30, "scenes": [{"scene_id": "scene_1",
\*      "start_time": 0, "end_time": 29.5, "duration": 29.5}]
\* M2: "total_duration": 30, "scenes": [5]
Members(token) ==
  IF token = "M1"
  THEN [total_duration |-> JNum(30000),
        scenes |-> JArr(<<Scene("scene_1", 0, 29500, 29500)>>)]
  ELSE [total_duration |-> JNum(30000), scenes |-> JArr(<<JNum(5000)>>)]

\* The payloads whose text holds braces of its own.
BracedPayloads == {"M1"}

\* json.loads of a braced payload's text from its first "{" to its last "}".
InnerObject(token) == Members(token).scenes.items[1]

Drop(text, n) == SubSeq(text, n + 1, Len(text))

\* The index of the first token at or after i that is not whitespace.
RECURSIVE SkipWhitespace(_, _)
SkipWhitespace(text, i) ==
  IF i <= Len(text) /\ text[i] = " " THEN SkipWhitespace(text, i + 1) ELSE i

\* The index of the last token at or before i that is not whitespace.
RECURSIVE SkipWhitespaceBack(_, _)
SkipWhitespaceBack(text, i) ==
  IF i >= 1 /\ text[i] = " " THEN SkipWhitespaceBack(text, i - 1) ELSE i

\* str.strip()
Strip(text) ==
  SubSeq(text, SkipWhitespace(text, 1), SkipWhitespaceBack(text, Len(text)))

\* re.sub(r"^```(?:json)?\s*", "", cleaned, flags=re.IGNORECASE)
StripOpeningFence(cleaned) ==
  IF cleaned # <<>> /\ cleaned[1] = "fence"
  THEN LET tagged == Len(cleaned) >= 2 /\ cleaned[2] = "json"
       IN Drop(cleaned, SkipWhitespace(cleaned, IF tagged THEN 3 ELSE 2) - 1)
  ELSE cleaned

\* re.sub(r"\s*```$", "", cleaned)
StripClosingFence(cleaned) ==
  IF cleaned # <<>> /\ cleaned[Len(cleaned)] = "fence"
  THEN SubSeq(cleaned, 1, SkipWhitespaceBack(cleaned, Len(cleaned) - 1))
  ELSE cleaned

\* The three cleaning lines every parse routine starts with.
Clean(response) == StripClosingFence(StripOpeningFence(Strip(response)))

NoParse == [ok |-> FALSE, value |-> JNull, next |-> 0]

Parsed(v, next) == [ok |-> TRUE, value |-> v, next |-> next]

TokenAt(text, i) == IF i >= 1 /\ i <= Len(text) THEN text[i] ELSE "<end>"

\* The JSON value that starts at token i, and the index after it.
RECURSIVE ParseValue(_, _)
ParseValue(text, i) ==
  LET t == TokenAt(text, i)
      j == SkipWhitespace(text, i + 1)
  IN CASE t = "null" -> Parsed(JNull, i + 1)
       [] t = "{" ->
            IF TokenAt(text, j) = "}" THEN Parsed(EmptyObj, j + 1)
            ELSE IF TokenAt(text, j) \in PayloadTokens
                    /\ TokenAt(text, SkipWhitespace(text, j + 1)) = "}"
                 THEN Parsed(JObj(Members(text[j])), SkipWhitespace(text, j + 1) + 1)
                 ELSE NoParse
       [] t = "[" ->
            IF TokenAt(text, j) = "]" THEN Parsed(JArr(<<>>), j + 1)
            ELSE LET element == ParseValue(text, j)
                     k == SkipWhitespace(text, element.next)
                 IN IF element.ok /\ TokenAt(text, k) = "]"
                    THEN Parsed(JArr(<<element.value>>), k + 1)
                    ELSE NoParse
       [] OTHER -> NoParse

\* json.loads(text): one value and nothing but whitespace around it;
\* ok = FALSE stands for json.JSONDecodeError.
JsonLoads(text) ==
  LET r == ParseValue(text, SkipWhitespace(text, 1))
  IN IF r.ok /\ SkipWhitespace(text, r.next) = Len(text) + 1 THEN r ELSE NoParse

OpensBrace(token) == token = "{" \/ token \in BracedPayloads

ClosesBrace(token) == token = "}" \/ token \in BracedPayloads

\* cleaned.find("{"): the first token holding a "{", 0 when there is none.
FindOpen(cleaned) ==
  IF \E i \in 1..Len(cleaned) : OpensBrace(cleaned[i])
  THEN CHOOSE i \in 1..Len(cleaned) :
         OpensBrace(cleaned[i]) /\ \A j \in 1..(i - 1) : ~OpensBrace(cleaned[j])
  ELSE 0

\* cleaned.rfind("}"): the last token holding a "}", 0 when there is none.
FindClose(cleaned) ==
  IF \E i \in 1..Len(cleaned) : ClosesBrace(cleaned[i])
  THEN CHOOSE i \in 1..Len(cleaned) :
         ClosesBrace(cleaned[i]) /\ \A j \in (i + 1)..Len(cleaned) : ~ClosesBrace(cleaned[j])
  ELSE 0

\* start_idx != -1 and end_idx > start_idx
HasBraces(cleaned) == FindOpen(cleaned) # 0 /\ FindClose(cleaned) >= FindOpen(cleaned)

\* json.loads(cleaned[start_idx:end_idx]).  A slice that begins or ends
\* inside a payload cuts an object open and is no JSON text, except the
\* slice that lies within one payload.
LoadBraced(cleaned) ==
  LET a == FindOpen(cleaned)
      b == FindClose(cleaned)
  IN IF cleaned[a] = "{" /\ cleaned[b] = "}" THEN JsonLoads(SubSeq(cleaned, a, b))
     ELSE IF a = b THEN Parsed(InnerObject(cleaned[a]), 0)
     ELSE NoParse

(***************************************************************************)
(* The parse routine of each agent that reads model output.                *)
(***************************************************************************)
\* creative_director.py 138 and script_analyzer.py 149
RawResponseFallback(response) == JObj([raw_response |-> JRaw(response)])

\* visual_designer.py 160
VisualFallback == JObj([scene_matches |-> JArr(<<>>), missing_visuals |-> JArr(<<>>)])

\* a fallback that rates the video 0.9
QAFallbackFavourable(response) ==
  JObj([score |-> JNum(900),
        issues |-> JArr(<<JStr("Could not parse quality assessment")>>),
        raw_response |-> JRaw(response),
        scores |-> EmptyObj,
        suggestions |-> JArr(<<>>)])

\* qa_agent.py 184-190
QAFallback(response) ==
  JObj([score |-> JNum(500),
        issues |-> JArr(<<JStr("Could not parse quality assessment")>>),
        raw_response |-> JRaw(response),
        scores |-> EmptyObj,
        suggestions |-> JArr(<<>>)])

\* CreativeDirectorAgent._parse_creative_response
ParseCreativeResponse(response) ==
  LET cleaned == Clean(response)
      whole == JsonLoads(cleaned)
  IN IF whole.ok THEN Returned(whole.value)
     ELSE IF HasBraces(cleaned)
     THEN IF LoadBraced(cleaned).ok THEN Returned(LoadBraced(cleaned).value)
          ELSE ReturnedWithWarning(RawResponseFallback(response))
     ELSE Returned(RawResponseFallback(response))

\* ScriptAnalyzerAgent._parse_analysis_response: _validate_timing runs
\* inside the try, whose except names json.JSONDecodeError alone.
ParseAnalysisResponse(response) ==
  LET cleaned == Clean(response)
      whole == JsonLoads(cleaned)
  IN IF whole.ok THEN ValidateTiming(whole.value)
     ELSE IF HasBraces(cleaned)
     THEN IF LoadBraced(cleaned).ok THEN ValidateTiming(LoadBraced(cleaned).value)
          ELSE ReturnedWithWarning(RawResponseFallback(response))
     ELSE Returned(RawResponseFallback(response))

\* VisualDesignerAgent._parse_json_response and QAAgent._parse_json_response
\* (the same text in both files).
ParseJsonResponse(response, fallback) ==
  LET cleaned == Clean(response)
      whole == JsonLoads(cleaned)
  IN IF whole.ok THEN Returned(whole.value)
     ELSE IF HasBraces(cleaned) /\ LoadBraced(cleaned).ok
     THEN Returned(LoadBraced(cleaned).value)
     ELSE ReturnedWithWarning(fallback)

\* visual_designer.py 158-161
ParseVisualResponse(response) == ParseJsonResponse(response, VisualFallback)

\* qa_agent.py 180-191
ParseQAResponse(response) == ParseJsonResponse(response, QAFallback(response))

(***************************************************************************)
(* What each process does with the parsed value.                           *)
(***************************************************************************)
\* bool(v)
Truthy(v) ==
  CASE v.type = "null" -> FALSE
    [] v.type = "number" -> v.n # 0
    [] v.type = "array" -> v.items # <<>>
    [] v.type = "object" -> DOMAIN v.members # {}
    [] OTHER -> TRUE

\* creative_director.py 49-59
CreativeRequiredKeys ==
  <<"creative_concept", "visual_style", "mood", "color_palette", "key_messages",
    "target_emotion", "storyboard_outline", "music_style", "pacing">>

\* key in v, for a dict or a list v
Contains(v, key) ==
  IF IsDict(v) THEN HasMember(v, key)
  ELSE \E i \in 1..Len(v.items) : v.items[i] = JStr(key)

\* creative_director.py 60-65
CreativeAfterParse(brief) ==
  IF ~(IsDict(brief) \/ IsList(brief)) THEN Raised("TypeError")   \* k not in 5
  ELSE LET missing == SelectSeq(CreativeRequiredKeys, LAMBDA k : ~Contains(brief, k))
       IN IF missing = <<>> THEN Returned(brief)
          ELSE IF IsDict(brief)
          THEN ReturnedWithWarning(
                 SetItem(brief, "_missing_keys",
                         JArr([i \in 1..Len(missing) |-> JStr(missing[i])])))
          ELSE Raised("TypeError")       \* item assignment on a list

\* The default of input_data.get("target_duration", 30), in thousandths.
DefaultTargetDuration == 30000

\* script_analyzer.py 43-47
DefaultFill(analysis, input_data) ==
  SetDefault(
    SetDefault(
      SetDefault(
        SetDefault(
          SetDefault(analysis, "scenes", JArr(<<>>)),
          "visual_requirements", JArr(<<>>)),
        "voiceover_instructions", EmptyObj),
      "call_to_action", EmptyObj),
    "total_duration", GetOr(input_data, "target_duration", JNum(DefaultTargetDuration)))

\* script_analyzer.py 43-49
AnalysisAfterParse(analysis, input_data) ==
  IF IsDict(analysis) THEN Returned(DefaultFill(analysis, input_data))
  ELSE Raised("AttributeError")          \* setdefault on a list

\* VisualDesignerAgent._create_processing_instructions
ProcessingInstructions(scene_visuals) ==
  LET matches == GetOr(scene_visuals, "scene_matches", JArr(<<>>))
  IN IF matches.type \in {"number", "null"} THEN Raised("TypeError")
     ELSE IF IsDict(matches)
     THEN IF Truthy(matches) THEN Raised("AttributeError") ELSE Returned(JArr(<<>>))
     ELSE IF ~IsList(matches) THEN Raised("AttributeError")
     ELSE IF \E i \in 1..Len(matches.items) : ~IsDict(matches.items[i])
     THEN Raised("AttributeError")       \* match.get on a match that is no dict
     ELSE Returned(JArr([i \in 1..Len(matches.items) |->
            JObj([scene_id |-> Get(matches.items[i], "scene_id"),
                  image_id |-> Get(matches.items[i], "image_id"),
                  processing |-> GetOr(matches.items[i], "composition", EmptyObj),
                  priority |-> JStr("high")])]))

\* visual_designer.py 46-52
VisualAfterParse(scene_visuals, image_analysis) ==
  IF ~IsDict(scene_visuals) THEN Raised("AttributeError")   \* .get on a list
  ELSE LET instructions == ProcessingInstructions(scene_visuals)
       IN IF instructions.raised THEN instructions
          ELSE Returned(JObj([image_analysis |-> image_analysis,
                              scene_visuals |-> scene_visuals,
                              processing_instructions |-> instructions.value]))

\* a / b rounded to the nearest integer, a tie going to the even one
RoundDiv(a, b) ==
  LET q == a \div b
      r == a % b
  IN IF 2 * r < b THEN q
     ELSE IF 2 * r > b THEN q + 1
     ELSE IF q % 2 = 0 THEN q ELSE q + 1

RECURSIVE SumNumbers(_, _)
SumNumbers(members, keys) ==
  IF keys = {} THEN 0
  ELSE LET k == CHOOSE x \in keys : TRUE
       IN members[k].n + SumNumbers(members, keys \ {k})

\* qa_agent.py 193-204
QAAfterParse(assessment) ==
  IF ~IsDict(assessment) THEN Raised("AttributeError")      \* .get on a list
  ELSE LET scores == Get(assessment, "scores")
       IN IF ~Truthy(scores)
          THEN Returned(SetDefault(assessment, "score", JNum(500)))
          ELSE IF IsDict(scores) /\ \A k \in DOMAIN scores.members : IsNumber(scores.members[k])
          THEN Returned(SetItem(assessment, "score",
                 JNum(10 * RoundDiv(SumNumbers(scores.members, DOMAIN scores.members),
                                    100 * Cardinality(DOMAIN scores.members)))))
          ELSE Returned(SetItem(assessment, "score", GetOr(assessment, "score", JNum(500))))

(***************************************************************************)
(* Initial state: the orchestrator has been constructed, no call made.     *)
(***************************************************************************)
OrchInit ==
  /\ state = InitialState
  /\ calls = 0
  /\ pc = [c \in CallIds |-> At("idle", 0)]
  /\ locals = [c \in CallIds |-> <<>>]
  /\ exc = [c \in CallIds |-> NoException]
  /\ log = [c \in CallIds |-> <<>>]
  /\ result = [c \in CallIds |-> NoResult]
  /\ workflow_files = <<>>

\* No model response is being parsed.
ParseOff ==
  /\ p_response = <<>>
  /\ p_stage = "off"
  /\ p_agent = "none"
  /\ p_parsed = Returned(JNull)
  /\ p_post = Returned(JNull)

\* No agent's process is running on its own.
NoError == [kind |-> "none", field |-> "none"]

StepOff ==
  /\ a_step = 0
  /\ a_input = {}
  /\ a_pc = "off"
  /\ a_next = 0
  /\ a_calls = <<>>
  /\ a_error = NoError
  /\ a_output = "none"

FillOff ==
  /\ f_analysis = EmptyObj
  /\ f_input = EmptyObj
  /\ f_original = EmptyObj
  /\ f_once = EmptyObj
  /\ f_count = 0

\* _validate_timing is not running on its own.
TimingOff ==
  /\ t_target = 0
  /\ t_analysis = EmptyObj
  /\ t_stage = "off"
  /\ t_outcome = Returned(JNull)
  /\ t_output = Returned(JNull)
  /\ t_scenes = <<>>

NoReport ==
  [approved |-> FALSE, quality_score |-> 0, issues |-> <<>>, technical_score |-> 0,
   content_score |-> 0]

NoQuality == [success |-> FALSE, quality_score |-> 0, approved |-> FALSE]

\* QAAgent.process is not running on its own.
QAOff ==
  /\ q_input = [exists |-> FALSE, technical_issues |-> 0, assessment |-> JNull]
  /\ q_stage = "off"
  /\ q_calls = <<>>
  /\ q_report = NoReport
  /\ q_result = NoQuality

\* _fit_to_1080p is not running on its own.
FitOff ==
  /\ v_size = <<0, 0>>
  /\ v_stage = "off"
  /\ v_resized = <<0, 0>>
  /\ v_frame = <<0, 0>>

\* _create_video_clips is not running on its own.
ClipOff ==
  /\ c_scenes = <<>>
  /\ c_scene_matches = <<>>
  /\ c_image_analysis = <<>>
  /\ c_files = {}
  /\ c_stage = "off"
  /\ c_clips = Returned(JNull)

\* No run's file writes are being followed.
PathOff ==
  /\ w_clock = 0
  /\ w_at = <<>>
  /\ w_written = <<>>
  /\ w_stamps = <<>>

NoOutcome == [status |-> "running", step |-> "None", error |-> "none"]

\* No run's data is being followed.
FlowOff ==
  /\ r_analysis = JNull
  /\ r_scene_visuals = JNull
  /\ r_files = {}
  /\ r_at = "off"
  /\ r_scenes = JNull
  /\ r_outputs = EmptyObj
  /\ r_result = NoOutcome

PureOff == TimingOff /\ QAOff /\ FitOff /\ ClipOff /\ PathOff /\ FlowOff

Init == OrchInit /\ ParseOff /\ StepOff /\ FillOff /\ PureOff

(***************************************************************************)
(* generate_advertisement, statement by statement.                         *)
(***************************************************************************)
\* Lines 57-60: the call starts; nothing here touches self.state.
Enter(c) ==
  /\ pc[c].at = "idle"
  /\ c = calls + 1
  /\ calls' = c
  /\ pc' = [pc EXCEPT ![c] = At("set", 1)]
  /\ UNCHANGED <<agentVars, state, locals, exc, log, result, workflow_files>>

\* A caller that makes its calls one after another.
Call(c) ==
  /\ \A d \in CallIds : d < c => pc[d].at \in {"done", "escaped"}
  /\ Enter(c)

\* A second caller that calls while the first call is still running.
ConcCall(c) ==
  /\ c \in ConcCallIds
  /\ c > 1 => \E d \in ConcCallIds : d < c /\ pc[d].at \notin {"idle", "done", "escaped"}
  /\ Enter(c)

\* self.state["current_step"] = <name> (lines 63, 77, 91, 105, 120, 137).
SetCurrentStep(c) ==
  /\ pc[c].at = "set"
  /\ state' = [state EXCEPT !.current_step = StepName(pc[c].k)]
  /\ pc' = [pc EXCEPT ![c] = At("call", pc[c].k)]
  /\ UNCHANGED <<agentVars, calls, locals, exc, log, result, workflow_files>>

\* Building step 4's input reads creative_brief.get (line 110): it raises
\* before the agent is called when the brief is not a mapping.
InputRaises(c, k) == k = 4 /\ ~locals[c][1].usable

BuildInputRaises(c) ==
  /\ pc[c].at = "call"
  /\ InputRaises(c, pc[c].k)
  /\ exc' = [exc EXCEPT ![c] = GlueError(c, pc[c].k)]
  /\ pc' = [pc EXCEPT ![c] = HandlerFor("call")]
  /\ UNCHANGED <<agentVars, state, calls, locals, log, result, workflow_files>>

\* <agent>.process(...) is called (lines 65, 79, 94, 107, 123, 139).
InvokeProcess(c) ==
  /\ pc[c].at = "call"
  /\ ~InputRaises(c, pc[c].k)
  /\ log' = [log EXCEPT ![c] = Append(@, <<"invoke", pc[c].k>>)]
  /\ pc' = [pc EXCEPT ![c] = At("in", pc[c].k)]
  /\ UNCHANGED <<agentVars, state, calls, locals, exc, result, workflow_files>>

\* <agent>.process(...) returns its output to the local variable.
ProcessReturns(c) ==
  /\ pc[c].at = "in"
  /\ \E usable \in Returns(pc[c].k) :
       locals' = [locals EXCEPT ![c] = Append(@, StepOutput(c, pc[c].k, usable))]
  /\ log' = [log EXCEPT ![c] = Append(@, <<"return", pc[c].k>>)]
  /\ pc' = [pc EXCEPT ![c] = At("store", pc[c].k)]
  /\ UNCHANGED <<agentVars, state, calls, exc, result, workflow_files>>

\* <agent>.process(...) raises.
ProcessRaises(c) ==
  /\ pc[c].at = "in"
  /\ log' = [log EXCEPT ![c] = Append(@, <<"raise", pc[c].k>>)]
  /\ exc' = [exc EXCEPT ![c] = StepError(c, pc[c].k)]
  /\ pc' = [pc EXCEPT ![c] = HandlerFor("in")]
  /\ UNCHANGED <<agentVars, state, calls, locals, result, workflow_files>>

\* Line 87 evaluates len(scenes) right after step 2's output was stored.
AfterStoreRaises(c, k) == k = 2 /\ ~locals[c][2].usable

\* self.state["outputs"][<key>] = <output> (lines 72, 85, 100, 115, 131, 152)
\* and the local statements up to the next step.
StoreOutput(c) ==
  /\ pc[c].at = "store"
  /\ state' = [state EXCEPT
       !.outputs = DictSet(@, OutputKey(pc[c].k), locals[c][pc[c].k])]
  /\ IF AfterStoreRaises(c, pc[c].k)
     THEN /\ exc' = [exc EXCEPT ![c] = GlueError(c, pc[c].k)]
          /\ pc' = [pc EXCEPT ![c] = HandlerFor("store")]
     ELSE /\ exc' = exc
          /\ pc' = [pc EXCEPT ![c] = AfterStore(pc[c].k)]
  /\ UNCHANGED <<agentVars, calls, locals, log, result, workflow_files>>

\* Lines 178-181: _save_workflow_state writes the document and the call
\* returns the success result.
SaveAndReturn(c) ==
  /\ pc[c].at = "save"
  /\ workflow_files' = Append(workflow_files, [call |-> c, complete |-> TRUE])
  /\ result' = [result EXCEPT ![c] = SuccessResult]
  /\ pc' = [pc EXCEPT ![c] = At("done", 0)]
  /\ UNCHANGED <<agentVars, state, calls, locals, exc, log>>

\* _save_workflow_state raises: in os.makedirs or open (nothing written), or
\* in json.dump after the file was opened for writing (a partial document).
SaveRaises(c) ==
  /\ pc[c].at = "save"
  /\ \E opened \in BOOLEAN :
       workflow_files' =
         IF opened THEN Append(workflow_files, [call |-> c, complete |-> FALSE])
         ELSE workflow_files
  /\ exc' = [exc EXCEPT ![c] = SaveError(c)]
  /\ pc' = [pc EXCEPT ![c] = HandlerFor("save")]
  /\ UNCHANGED <<agentVars, state, calls, locals, log, result>>

\* A handler that also wrote the workflow document.
HandleExceptionPersists(c) ==
  /\ pc[c].at = "except"
  /\ state' = [state EXCEPT !.errors = Append(@, exc[c])]
  /\ result' = [result EXCEPT ![c] = FailureResult(exc[c])]
  /\ workflow_files' = Append(workflow_files, [call |-> c, complete |-> TRUE])
  /\ pc' = [pc EXCEPT ![c] = At("done", 0)]
  /\ UNCHANGED <<agentVars, calls, locals, exc, log>>

\* Lines 183-191: the handler records the message and returns the failure.
HandleException(c) ==
  /\ pc[c].at = "except"
  /\ state' = [state EXCEPT !.errors = Append(@, exc[c])]
  /\ result' = [result EXCEPT ![c] = FailureResult(exc[c])]
  /\ pc' = [pc EXCEPT ![c] = At("done", 0)]
  /\ UNCHANGED <<agentVars, calls, locals, exc, log, workflow_files>>

Step(c) ==
  \/ SetCurrentStep(c)
  \/ BuildInputRaises(c)
  \/ InvokeProcess(c)
  \/ ProcessReturns(c)
  \/ ProcessRaises(c)
  \/ StoreOutput(c)
  \/ SaveAndReturn(c)
  \/ SaveRaises(c)
  \/ HandleException(c)

Next == \E c \in CallIds : Call(c) \/ Step(c)

Spec == Init /\ [][Next]_vars

\* Every delegated call and every file operation returns or raises.
FairSpec == Spec /\ WF_vars(Next)

ConcNext == \E c \in CallIds : ConcCall(c) \/ Step(c)

ConcSpec == Init /\ [][ConcNext]_vars

(***************************************************************************)
(* Properties of the orchestrator.                                         *)
(***************************************************************************)
Prefix(s, n) == [i \in 1..n |-> s[i]]

\* The invocations of a run in which all six steps return.
FullLog ==
  [i \in 1..(2 * NumSteps) |->
     IF i % 2 = 1 THEN <<"invoke", (i + 1) \div 2>> ELSE <<"return", i \div 2>>]

\* A log of a run: a prefix of FullLog, or the steps before k returned in
\* order and then step k was invoked once and raised.
LegalLog(l) ==
  \/ Len(l) <= Len(FullLog) /\ l = Prefix(FullLog, Len(l))
  \/ \E k \in Steps :
       l = Prefix(FullLog, 2 * (k - 1)) \o << <<"invoke", k>>, <<"raise", k>> >>

Invoked(c, k) == \E i \in 1..Len(log[c]) : log[c][i] = <<"invoke", k>>

Finished(c) == pc[c].at = "done"

\* C1: in every run the steps are invoked in the fixed order
\* creative_direction .. quality_assurance, each only after all earlier
\* steps returned, each at most once, and none again after it returned or
\* raised.
C1_FixedOrder ==
  \A c \in CallIds :
    /\ LegalLog(log[c])
    /\ \A k \in Steps :
         Cardinality({i \in 1..Len(log[c]) : log[c][i] = <<"invoke", k>>}) <= 1
    /\ pc[c].at \in {"call", "in", "store"} => Invoked(c, pc[c].k) = (pc[c].at # "call")

\* A run in which all six steps were invoked and returned, in order.
C1_Witness == \E c \in CallIds : Finished(c) /\ log[c] = FullLog

\* C2: when step k raises in the first run of a fresh orchestrator, no
\* later step is ever invoked in that run and, when the call returns,
\* state.outputs holds exactly the outputs of steps 1..k-1, in that order.
C2_HaltOnFirstFailure ==
  \A k \in Steps :
    exc[1] = StepError(1, k) =>
      /\ \A j \in Steps : j > k => ~Invoked(1, j)
      /\ (Finished(1) /\ calls = 1) =>
           /\ Keys(state.outputs) = [i \in 1..(k - 1) |-> OutputKey(i)]
           /\ \A i \in 1..(k - 1) : state.outputs[i][2] = locals[1][i]
           /\ ~result[1].success

\* Step 3 raised in the first run, which returned with the outputs of
\* steps 1 and 2.
C2_Witness ==
  /\ Finished(1) /\ calls = 1
  /\ exc[1] = StepError(1, 3)
  /\ Keys(state.outputs) = <<"creative_brief", "script_analysis">>

WellFormedResult(r) ==
  /\ r.returned
  /\ r.success \/ (r.error # NoException /\ r.carries_state)

\* C3: generate_advertisement never lets an exception escape: whatever a
\* step, a delegated call or the state write does (return or raise), the
\* call ends by returning a success result or a failure result that carries
\* an error message and the state.
C3_NeverEscapes ==
  /\ [](\A c \in CallIds :
          /\ pc[c].at # "escaped"
          /\ Finished(c) => WellFormedResult(result[c]))
  /\ \A c \in CallIds : (pc[c].at # "idle") ~> Finished(c)

\* The state write raised and the call returned a failure result.
C3_Witness ==
  \E c \in CallIds :
    Finished(c) /\ exc[c] = SaveError(c) /\ result[c] = FailureResult(SaveError(c))

Documents(c) == {i \in 1..Len(workflow_files) : workflow_files[i].call = c}

CompleteDocuments(c) == {i \in Documents(c) : workflow_files[i].complete}

\* C4 as stated: every run that ended, with a success or a failure result,
\* has written exactly one workflow document.
C4_PersistedOncePerRun ==
  \A c \in CallIds : Finished(c) => Cardinality(Documents(c)) = 1

\* C4, amended: the workflow state is persisted exactly once per successful
\* run, at the end of the run; a run that returns a failure result has
\* written no complete workflow document, and none at all unless the write
\* itself was what failed.
C4_PersistedOnSuccessOnly ==
  \A c \in CallIds :
    /\ Cardinality(Documents(c)) <= 1
    /\ pc[c].at \notin {"done", "except"} => Documents(c) = {}
    /\ Finished(c) =>
         /\ result[c].success <=> Cardinality(CompleteDocuments(c)) = 1
         /\ exc[c].kind \in {"step", "glue"} => Documents(c) = {}

\* One run succeeded and wrote its document; a later run failed in a step
\* and wrote none.
C4_Witness ==
  \E c, d \in CallIds :
    /\ Finished(c) /\ result[c].success /\ Cardinality(CompleteDocuments(c)) = 1
    /\ Finished(d) /\ exc[d].kind = "step" /\ Documents(d) = {}

\* C5: the WorkflowState is not reused across runs: each call starts with
\* empty outputs and errors, so after a run they reflect that run only (at
\* most one error, no output left over from an earlier run).
C5_StateNotReused ==
  \A c \in CallIds :
    /\ pc[c] = At("set", 1) => state.outputs = <<>> /\ state.errors = <<>>
    /\ (Finished(c) /\ calls = c) =>
         /\ Len(state.errors) <= 1
         /\ \A i \in 1..Len(state.outputs) : state.outputs[i][2].call = c
         /\ \A i \in 1..Len(state.errors) : state.errors[i].call = c

\* C6: overlapping runs share no orchestrator state: the current_step a run
\* works under is the one it set, and the outputs and errors in the state
\* returned to it were written by that run alone.
C6_NoSharedState ==
  \A c \in ConcCallIds :
    /\ pc[c].at \in {"call", "in", "store"} => state.current_step = StepName(pc[c].k)
    /\ (Finished(c) /\ result[c].carries_state) =>
         /\ \A i \in 1..Len(state.outputs) : state.outputs[i][2].call = c
         /\ \A i \in 1..Len(state.errors) : state.errors[i].call = c

\* The step whose identifier current_step holds (0: none).
CurrentStep == IF \E k \in Steps : StepName(k) = state.current_step
               THEN CHOOSE k \in Steps : StepName(k) = state.current_step
               ELSE 0

\* C18: current_step holds a step's identifier from before the step is
\* invoked until the next step is about to start; hence in every failure
\* result state.current_step names the step whose execution raised, and
\* that step has no entry in state.outputs.  Stated for the first run of a
\* fresh orchestrator.
C18_CurrentStepNamesFailure ==
  calls = 1 =>
    /\ pc[1].at \in {"call", "in", "store"} => state.current_step = StepName(pc[1].k)
    /\ (Finished(1) /\ ~result[1].success) =>
         /\ CurrentStep \in Steps
         /\ exc[1] = StepError(1, CurrentStep)
         /\ ~HasKey(state.outputs, OutputKey(CurrentStep))

\* C19: state.status follows the run's lifecycle: "initialized" before a
\* run, "running" while steps execute, "completed" in the state of a
\* successful run and "failed" in the state returned with a failure result.
\* Stated for the first run of a fresh orchestrator.
C19_StatusTracksLifecycle ==
  /\ calls = 0 => state.status = "initialized"
  /\ calls = 1 =>
       /\ pc[1].at \in {"call", "in", "store"} => state.status = "running"
       /\ (Finished(1) /\ result[1].success) => state.status = "completed"
       /\ (Finished(1) /\ ~result[1].success) => state.status = "failed"

\* The six process calls of a run all returned.
AllStepsReturned(c) ==
  \A k \in Steps : \E i \in DOMAIN log[c] : log[c][i] = <<"return", k>>

\* C27: a run whose six steps complete without raising returns a success
\* result; equivalently, the state of every failure result lacks at least
\* the qa_result entry.  Stated for the first run of a fresh orchestrator.
C27_SixStepsGiveSuccess ==
  (calls = 1 /\ Finished(1)) =>
    /\ AllStepsReturned(1) => result[1].success
    /\ ~result[1].success => ~HasKey(state.outputs, "qa_result")

(***************************************************************************)
(* ParseSpec: a model response, parsed by one of the four agents that read *)
(* model output, and then handed to the rest of that agent's process.      *)
(***************************************************************************)
BodyTokens == {"{", "}", "[", "]", "null", "prose", " ", "M1", "M2"}

Bodies == UNION {[1..n -> BodyTokens] : n \in 0..MaxBody}

\* What a response opens with: nothing, a fence, a tagged fence, prose.
Openings == {<<>>, <<"fence">>, <<"fence", "json", " ">>, <<"prose", " ">>}

\* What a response closes with: nothing, a fence, prose.
Closings == {<<>>, <<" ", "fence">>, <<" ", "prose">>}

Responses == {o \o b \o c : o \in Openings, b \in Bodies, c \in Closings}

ParseInit ==
  /\ p_response \in Responses
  /\ p_stage = "response"
  /\ p_agent = "none"
  /\ p_parsed = Returned(JNull)
  /\ p_post = Returned(JNull)

ParseAs(agent, outcome) ==
  /\ p_stage = "response"
  /\ p_stage' = "parsed"
  /\ p_agent' = agent
  /\ p_parsed' = outcome
  /\ UNCHANGED <<orchVars, stepVars, fillVars, pureVars, p_response, p_post>>

\* creative_director.py 46
ParseCreative == ParseAs("creative_director", ParseCreativeResponse(p_response))

\* script_analyzer.py 40
ParseAnalysis == ParseAs("script_analyzer", ParseAnalysisResponse(p_response))

\* visual_designer.py 159
ParseVisual == ParseAs("visual_designer", ParseVisualResponse(p_response))

\* qa_agent.py 182
ParseQA == ParseAs("qa_agent", ParseQAResponse(p_response))

\* The input ScriptAnalyzerAgent.process gets from the orchestrator:
\* target_duration = 30 (workflow_orchestrator.py 48, 82).
AnalysisInput == JObj([script |-> JStr("script"), target_duration |-> JNum(30000)])

\* The statements of process that follow the parse routine.
AfterParse(agent, value) ==
  CASE agent = "creative_director" -> CreativeAfterParse(value)
    [] agent = "script_analyzer" -> AnalysisAfterParse(value, AnalysisInput)
    [] agent = "visual_designer" -> VisualAfterParse(value, JArr(<<>>))
    [] agent = "qa_agent" -> QAAfterParse(value)

ContinueProcess ==
  /\ p_stage = "parsed"
  /\ ~p_parsed.raised
  /\ p_stage' = "post"
  /\ p_post' = AfterParse(p_agent, p_parsed.value)
  /\ UNCHANGED <<orchVars, stepVars, fillVars, pureVars, p_response, p_agent, p_parsed>>

ParseNext == ParseCreative \/ ParseAnalysis \/ ParseVisual \/ ParseQA \/ ContinueProcess

ParseSpecInit == OrchInit /\ ParseInit /\ StepOff /\ FillOff /\ PureOff

ParseSpec == ParseSpecInit /\ [][ParseNext]_vars

(***************************************************************************)
(* Properties of the parse routines.                                       *)
(***************************************************************************)
\* C7: every agent's parse routine returns a value for every response and
\* never raises.
C7_ParseNeverRaises == p_stage \in {"parsed", "post"} => ~p_parsed.raised

IsFallback(agent, response, value) ==
  CASE agent \in {"creative_director", "script_analyzer"} ->
         value = RawResponseFallback(response)
    [] agent = "visual_designer" -> value = VisualFallback
    [] agent = "qa_agent" -> value = QAFallback(response)

\* C8: what a parse routine returns is a mapping or the fallback, never an
\* array or a scalar, so the statements of process that follow it never fail.
C8_ParseYieldsMapping ==
  /\ (p_stage \in {"parsed", "post"} /\ ~p_parsed.raised) =>
       IsDict(p_parsed.value) \/ IsFallback(p_agent, p_response, p_parsed.value)
  /\ p_stage = "post" => ~p_post.raised

\* C21: whenever a parse routine falls back, the value it returns holds the
\* raw model text under a field of its own (raw_response), for each of the
\* four agents that parse model output.
C21_FallbackKeepsRawText ==
  (/\ p_stage \in {"parsed", "post"}
   /\ ~p_parsed.raised
   /\ IsFallback(p_agent, p_response, p_parsed.value)) =>
    /\ HasMember(p_parsed.value, "raw_response")
    /\ Get(p_parsed.value, "raw_response") = JRaw(p_response)

(***************************************************************************)
(* StepSpec: one agent's process, called with some of the fields its       *)
(* docstring lists, from validate_input to its return or its exception.    *)
(***************************************************************************)
\* The required_fields each process hands to validate_input, in order.
RequiredFields(k) ==
  CASE k = 1 -> <<"product_description", "target_audience">>
    [] k = 2 -> <<"script">>
    [] k = 3 -> <<"images", "scene_requirements">>
    [] k = 4 -> <<"script">>
    [] k = 5 -> <<"scenes", "scene_visuals", "image_analysis">>
    [] k = 6 -> <<"video_path">>

\* The fields each process reads with input_data.get.
OptionalFields(k) ==
  CASE k = 1 -> {"brand_guidelines", "script"}
    [] k = 2 -> {"creative_brief", "target_duration"}
    [] k = 3 -> {"creative_brief"}
    [] k = 4 -> {"voiceover_instructions", "music_style", "scenes", "duration"}
    [] k = 5 -> {"voiceover_path", "fps"}
    [] k = 6 -> {"original_requirements", "creative_brief", "scenes"}

Range(seq) == {seq[i] : i \in 1..Len(seq)}

InputFields(k) == Range(RequiredFields(k)) \cup OptionalFields(k)

\* ValueError(f"Missing required field: {field}")
MissingField(field) == [kind |-> "ValueError", field |-> field]

\* An exception raised by a delegated call.
DelegatedCallError == [kind |-> "DelegatedCallError", field |-> "none"]

\* An exception raised by the agent's own statements after validation.
ProcessError == [kind |-> "ProcessError", field |-> "none"]

\* validate_input reporting the last missing field, not the first
RECURSIVE ValidateInputBackFrom(_, _, _)
ValidateInputBackFrom(input_data, required_fields, i) ==
  IF i < 1 THEN NoError
  ELSE IF required_fields[i] \notin input_data THEN MissingField(required_fields[i])
  ELSE ValidateInputBackFrom(input_data, required_fields, i - 1)

ValidateInputNamesLast(input_data, required_fields) ==
  ValidateInputBackFrom(input_data, required_fields, Len(required_fields))

\* The loop of validate_input from the i-th required field on.
RECURSIVE ValidateInputFrom(_, _, _)
ValidateInputFrom(input_data, required_fields, i) ==
  IF i > Len(required_fields) THEN NoError
  ELSE IF required_fields[i] \notin input_data THEN MissingField(required_fields[i])
  ELSE ValidateInputFrom(input_data, required_fields, i + 1)

\* BaseAgent.validate_input: NoError stands for "return True".
ValidateInput(input_data, required_fields) ==
  ValidateInputFrom(input_data, required_fields, 1)

\* A delegated call of a process.  absorbed: the call sits in a try whose
\* handler goes on; optional: the statements before it can skip it.
Delegated(kind, absorbed, optional) ==
  [kind |-> kind, absorbed |-> absorbed, optional |-> optional]

\* The delegated calls of each process, in the order of its statements.
Plan(k) ==
  CASE k = 1 -> <<Delegated("llm", FALSE, FALSE)>>
    [] k = 2 -> <<Delegated("llm", FALSE, FALSE)>>
    [] k = 3 -> <<Delegated("image", TRUE, TRUE), Delegated("llm", FALSE, FALSE)>>
    [] k = 4 -> <<Delegated("tts", FALSE, FALSE)>>
    [] k = 5 -> <<Delegated("video", FALSE, TRUE), Delegated("video", FALSE, FALSE),
                  Delegated("video", FALSE, TRUE), Delegated("video", FALSE, FALSE)>>
    [] k = 6 -> <<Delegated("video", TRUE, FALSE), Delegated("llm", FALSE, FALSE)>>

StepInit ==
  /\ a_step \in Steps
  /\ a_input \in SUBSET InputFields(a_step)
  /\ a_pc = "pending"
  /\ a_next = 1
  /\ a_calls = <<>>
  /\ a_error = NoError
  /\ a_output = "none"

\* The first statement of every process: self.validate_input(...).
Validate ==
  /\ a_pc = "pending"
  /\ LET error == ValidateInput(a_input, RequiredFields(a_step))
     IN /\ a_error' = error
        /\ a_pc' = IF error = NoError THEN "input_validated" ELSE "failed"
  /\ UNCHANGED <<orchVars, parseVars, fillVars, pureVars, a_step, a_input, a_next, a_calls, a_output>>

Running == a_pc \in {"input_validated", "delegated_call_issued"}

\* The next delegated call is issued; it returns or it raises, and what it
\* raises ends the process unless the call is an absorbed one.
IssueCall ==
  /\ Running
  /\ a_next <= Len(Plan(a_step))
  /\ a_calls' = Append(a_calls, Plan(a_step)[a_next].kind)
  /\ a_next' = a_next + 1
  /\ \E raises \in BOOLEAN :
       IF raises /\ ~Plan(a_step)[a_next].absorbed
       THEN a_pc' = "failed" /\ a_error' = DelegatedCallError
       ELSE a_pc' = "delegated_call_issued" /\ a_error' = a_error
  /\ UNCHANGED <<orchVars, parseVars, fillVars, pureVars, a_step, a_input, a_output>>

\* A delegated call the data gives no occasion for: a path that does not
\* exist, a scene without a match, no voiceover.
SkipCall ==
  /\ Running
  /\ a_next <= Len(Plan(a_step))
  /\ Plan(a_step)[a_next].optional
  /\ a_next' = a_next + 1
  /\ UNCHANGED <<orchVars, parseVars, fillVars, pureVars, a_step, a_input, a_pc, a_calls, a_error,
                 a_output>>

\* A statement of the process itself raises after validation: int() of a
\* field, the parse routine, "No video clips created".
ProcessFails ==
  /\ Running
  /\ a_pc' = "failed"
  /\ a_error' = ProcessError
  /\ UNCHANGED <<orchVars, parseVars, fillVars, pureVars, a_step, a_input, a_next, a_calls, a_output>>

\* QAAgent.process when the video file does not exist: the zero report.
ReturnNotFound ==
  /\ a_step = 6
  /\ a_pc = "input_validated"
  /\ a_pc' = "done"
  /\ a_output' = "not_found_report"
  /\ UNCHANGED <<orchVars, parseVars, fillVars, pureVars, a_step, a_input, a_next, a_calls, a_error>>

\* The process normalises what it has and returns its output dict.
ReturnOutput ==
  /\ Running
  /\ a_next > Len(Plan(a_step))
  /\ a_pc' = "done"
  /\ a_output' = OutputKey(a_step)
  /\ UNCHANGED <<orchVars, parseVars, fillVars, pureVars, a_step, a_input, a_next, a_calls, a_error>>

StepNext ==
  Validate \/ IssueCall \/ SkipCall \/ ProcessFails \/ ReturnNotFound \/ ReturnOutput

StepSpecInit == OrchInit /\ ParseOff /\ StepInit /\ FillOff /\ PureOff

StepSpec == StepSpecInit /\ [][StepNext]_vars

(***************************************************************************)
(* Properties of input validation.                                         *)
(***************************************************************************)
MissingPositions == {i \in 1..Len(RequiredFields(a_step)) : RequiredFields(a_step)[i] \notin a_input}

FirstMissing ==
  RequiredFields(a_step)[CHOOSE i \in MissingPositions : \A j \in MissingPositions : i <= j]

\* C9: for every step, when a required field is absent process raises an
\* error naming the first missing field, with no delegated call issued and no
\* output produced; when all required fields are present validation does not
\* raise.
C9_ValidationFirst ==
  /\ a_pc = "pending" => a_calls = <<>> /\ a_output = "none"
  /\ (a_pc # "pending" /\ MissingPositions # {}) =>
       /\ a_pc = "failed"
       /\ a_error = MissingField(FirstMissing)
       /\ a_calls = <<>>
       /\ a_output = "none"
  /\ (a_pc # "pending" /\ MissingPositions = {}) => a_error.kind # "ValueError"

\* The video editor is called without scene_visuals and image_analysis and
\* raises naming scene_visuals.
C9_Witness ==
  /\ a_step = 5
  /\ a_input = {"scenes", "fps"}
  /\ a_pc = "failed"
  /\ a_error = MissingField("scene_visuals")
  /\ a_calls = <<>>

(***************************************************************************)
(* FillSpec: the default-fill of ScriptAnalyzerAgent.process, applied to   *)
(* the dicts the parse routine can hand it.                                *)
(***************************************************************************)
FillKeys ==
  {"scenes", "visual_requirements", "voiceover_instructions", "call_to_action",
   "total_duration"}

\* The keys an analysis can hold: the five above and the fallback's key.
AnalysisKeys == FillKeys \cup {"raw_response"}

\* Values a key can hold: None, an empty list, a number.
FillValues == {JNull, JArr(<<>>), JNum(20000)}

Analyses == {JObj(members) : members \in UNION {[keys -> FillValues] : keys \in SUBSET AnalysisKeys}}

TargetDurations == {15000, 30000, 60000}

\* input_data with and without the optional target_duration.
FillInputs ==
  {JObj([script |-> JStr("script")])}
    \cup {JObj([script |-> JStr("script"), target_duration |-> JNum(d)]) : d \in TargetDurations}

FillInit ==
  /\ f_analysis \in Analyses
  /\ f_input \in FillInputs
  /\ f_original = f_analysis
  /\ f_once = f_analysis
  /\ f_count = 0

\* script_analyzer.py 43-47, run on the dict it has just filled as well.
ApplyDefaultFill ==
  /\ f_count < MaxFills
  /\ f_analysis' = DefaultFill(f_analysis, f_input)
  /\ f_once' = IF f_count = 0 THEN DefaultFill(f_analysis, f_input) ELSE f_once
  /\ f_count' = f_count + 1
  /\ UNCHANGED <<orchVars, parseVars, stepVars, pureVars, f_input, f_original>>

FillNext == ApplyDefaultFill

FillSpecInit == OrchInit /\ ParseOff /\ StepOff /\ FillInit /\ PureOff

FillSpec == FillSpecInit /\ [][FillNext]_vars

(***************************************************************************)
(* Properties of the default-fill.                                         *)
(***************************************************************************)
ExpectedDefault(key) ==
  CASE key \in {"scenes", "visual_requirements"} -> JArr(<<>>)
    [] key \in {"voiceover_instructions", "call_to_action"} -> EmptyObj
    [] key = "total_duration" ->
         IF "target_duration" \in DOMAIN f_input.members
         THEN f_input.members["target_duration"]
         ELSE JNum(30000)

\* C10: after the default-fill the five keys are all present, a key that was
\* absent holds its default (total_duration: the caller's target_duration),
\* values already present are unchanged, no other key appears, and a second
\* default-fill changes nothing.
C10_DefaultFillIdempotent ==
  f_count >= 1 =>
    /\ DOMAIN f_analysis.members = (DOMAIN f_original.members) \cup FillKeys
    /\ \A key \in DOMAIN f_original.members :
         f_analysis.members[key] = f_original.members[key]
    /\ \A key \in FillKeys \ DOMAIN f_original.members :
         f_analysis.members[key] = ExpectedDefault(key)
    /\ f_count >= 2 => f_analysis = f_once

\* A fallback dict with scenes = None, filled twice for a 15 s target.
C10_Witness ==
  /\ f_count = 2
  /\ DOMAIN f_original.members = {"raw_response", "scenes"}
  /\ f_original.members["scenes"] = JNull
  /\ f_analysis.members["scenes"] = JNull
  /\ f_input.members = [script |-> JStr("script"), target_duration |-> JNum(15000)]
  /\ f_analysis.members["total_duration"] = JNum(15000)

(***************************************************************************)
(* TimingSpec: an analysis with scenes, as json.loads built it from the    *)
(* model response, taken through _validate_timing, the rest of             *)
(* ScriptAnalyzerAgent.process and the orchestrator's use of the scenes.   *)
(***************************************************************************)
\* A scene of the model response; end_time is written only when the
\* response has both numbers.
SceneOf(start, duration) ==
  JObj([scene_id |-> JStr("scene"),
        start_time |-> start,
        end_time |-> IF IsNumber(start) /\ IsNumber(duration)
                     THEN JNum(start.n + duration.n) ELSE JNull,
        duration |-> duration])

\* generate_advertisement(target_duration = 10 or 15) has reached step 2 and
\* the model has answered: total_duration absent, 1 s or 10 s, and up to
\* MaxScenes scenes whose start_time and duration may not be numbers.
TimingSpecInit ==
  LET absent == [type |-> "absent"]
      totals == {absent, JNum(1000), JNum(10000)}
      starts == {JNull, JNum(0), JNum(5004)}
      durations == {JStr("slow"), JNum(500), JNum(1200), JNum(3500), JNum(4996), JNum(5000)}
      scene == {SceneOf(start, duration) : start \in starts, duration \in durations}
                 \cup {SetItem(SceneOf(JNum(0), JNum(3500)), "end_time", JNum(9000))}
      sequences == UNION {[1..n -> scene] : n \in 0..MaxScenes}
  IN /\ OrchInit /\ ParseOff /\ StepOff /\ FillOff /\ QAOff /\ FitOff /\ ClipOff /\ PathOff
     /\ FlowOff
     /\ t_target \in {10000, 15000}
     /\ t_analysis \in {IF total = absent THEN JObj([scenes |-> JArr(scenes)])
                        ELSE JObj([scenes |-> JArr(scenes), total_duration |-> total]) :
                          total \in totals, scenes \in sequences}
     /\ t_stage = "parsed"
     /\ t_outcome = Returned(JNull)
     /\ t_output = Returned(JNull)
     /\ t_scenes = <<>>

\* script_analyzer.py 132: self._validate_timing(analysis)
CheckTiming ==
  /\ t_stage = "parsed"
  /\ t_stage' = "validated"
  /\ t_outcome' = ValidateTiming(t_analysis)
  /\ UNCHANGED <<timingRest, t_target, t_analysis, t_output,
                 t_scenes>>

\* script_analyzer.py 42-49: the default-fill and the return of process,
\* on the input_data of workflow_orchestrator.py 79-83.
ReturnAnalysis ==
  /\ t_stage = "validated"
  /\ ~t_outcome.raised
  /\ t_stage' = "returned"
  /\ t_output' = AnalysisAfterParse(t_outcome.value,
                   JObj([script |-> JStr("script"), creative_brief |-> EmptyObj,
                         target_duration |-> JNum(t_target)]))
  /\ UNCHANGED <<timingRest, t_target, t_analysis, t_outcome,
                 t_scenes>>

\* The run goes on to its success result, whose metadata.scenes are
\* script_analysis.get("scenes", []) or [] (workflow_orchestrator.py 85,
\* 173).  It does so only when the video editor gets a clip (video_editor.py
\* 103-104) and float(scene.get("duration", 5)) succeeds for every scene
\* (video_editor.py 75).
ReportScenes ==
  LET got == GetOr(t_output.value, "scenes", JArr(<<>>))
      scenes == IF IsList(got) THEN got.items ELSE <<>>
  IN /\ t_stage = "returned"
     /\ ~t_output.raised
     /\ scenes # <<>>
     /\ \A i \in 1..Len(scenes) : IsDict(scenes[i]) /\ IsNumber(Get(scenes[i], "duration"))
     /\ t_stage' = "result"
     /\ t_scenes' = scenes
     /\ UNCHANGED <<timingRest, t_target, t_analysis, t_outcome,
                    t_output>>

TimingSpec == TimingSpecInit /\ [][CheckTiming \/ ReturnAnalysis \/ ReportScenes]_vars

(***************************************************************************)
(* Properties of timing validation.                                        *)
(***************************************************************************)
TimedBefore == t_analysis.members["scenes"].items

TimedAfter == t_outcome.value.members["scenes"].items

HasTimedTarget == "total_duration" \in DOMAIN t_analysis.members

TimedTarget == t_analysis.members["total_duration"].n

NumberOr(v, default) == IF v.type = "number" THEN v.n ELSE default

\* The sum of the durations that are numbers.
RECURSIVE TotalDuration(_, _)
TotalDuration(scenes, n) ==
  IF n = 0 THEN 0
  ELSE NumberOr(scenes[n].members["duration"], 0) + TotalDuration(scenes, n - 1)

SumOf(scenes) == TotalDuration(scenes, Len(scenes))

WithinTolerance == HasTimedTarget /\ Abs(SumOf(TimedBefore) - TimedTarget) <= 1000

WellTyped(scenes) ==
  \A i \in 1..Len(scenes) :
    scenes[i].members["start_time"].type = "number" /\ scenes[i].members["duration"].type = "number"

OthersUnchanged ==
  /\ ~t_outcome.raised
  /\ Len(TimedAfter) = Len(TimedBefore)
  /\ \A i \in 1..(Len(TimedBefore) - 1) : TimedAfter[i] = TimedBefore[i]

\* The last scene differs from what it was in duration and end_time at most.
LastKeepsTheRest ==
  LET before == TimedBefore[Len(TimedBefore)].members
      after == TimedAfter[Len(TimedAfter)].members
  IN /\ DOMAIN after = DOMAIN before
     /\ \A key \in DOMAIN before \ {"duration", "end_time"} : after[key] = before[key]

\* end_time = start_time + duration, to a hundredth of a second
LastEndsOnTime ==
  LET last == TimedAfter[Len(TimedAfter)].members
  IN /\ last["end_time"].type = "number"
     /\ Abs(last["end_time"].n - (last["start_time"].n + last["duration"].n)) <= 10

\* C11 as stated: for any scene sequence (scenes with numeric start_time and
\* duration) whose durations sum to within 1.0 s of the target, validation
\* changes only the last scene's duration and end_time, the corrected sum is
\* the target within 0.01 s and the last scene has end_time = start_time +
\* duration.
C11_SumCorrected ==
  (t_stage # "parsed" /\ WithinTolerance /\ WellTyped(TimedBefore)) =>
    /\ OthersUnchanged
    /\ Abs(SumOf(TimedAfter) - TimedTarget) <= 10
    /\ TimedBefore # <<>> => LastKeepsTheRest /\ LastEndsOnTime

\* C11, amended: the statement holds for a non-empty sequence whose last
\* scene has a numeric duration (end_time follows only when start_time is a
\* number too); an empty sequence, or one whose last scene has no numeric
\* duration, is left as it was.
C11_LastSceneAdjusted ==
  (t_stage # "parsed" /\ WithinTolerance) =>
    /\ OthersUnchanged
    /\ IF TimedBefore # <<>> /\
          TimedBefore[Len(TimedBefore)].members["duration"].type = "number"
       THEN /\ LastKeepsTheRest
            /\ Abs(SumOf(TimedAfter) - TimedTarget) <= 10
            /\ IF TimedBefore[Len(TimedBefore)].members["start_time"].type = "number"
               THEN LastEndsOnTime
               ELSE TimedAfter[Len(TimedAfter)].members["end_time"] =
                      TimedBefore[Len(TimedBefore)].members["end_time"]
       ELSE TimedAfter = TimedBefore

\* Two scenes of 4.996 s against a target of 10 s: the last becomes 5.0 s
\* and ends at 10.0 s.
C11_Witness ==
  /\ t_stage = "validated"
  /\ HasTimedTarget /\ TimedTarget = 10000
  /\ TimedBefore = <<SceneOf(JNum(0), JNum(4996)), SceneOf(JNum(5004), JNum(4996))>>
  /\ TimedAfter[1] = TimedBefore[1]
  /\ TimedAfter[2].members["duration"] = JNum(5000)
  /\ TimedAfter[2].members["end_time"] = JNum(10000)

\* C12: for any scene sequence whose durations sum to more than 1.0 s away
\* from the target, validation leaves every scene unchanged and records a
\* warning.
C12_WarnOnly ==
  (t_stage # "parsed" /\ HasTimedTarget /\ Abs(SumOf(TimedBefore) - TimedTarget) > 1000) =>
    /\ ~t_outcome.raised
    /\ t_outcome.value = t_analysis
    /\ t_outcome.warned

\* Scenes of 5.0 s and 3.5 s against a target of 10 s.
C12_Witness ==
  /\ t_stage = "validated"
  /\ HasTimedTarget /\ TimedTarget = 10000
  /\ TimedBefore = <<SceneOf(JNum(0), JNum(5000)), SceneOf(JNum(5004), JNum(3500))>>
  /\ t_outcome.warned
  /\ TimedAfter = TimedBefore

\* C13: on every successful run with target_duration T the durations of
\* metadata.scenes sum to T within 1.0 s, and within 0.01 s when the
\* response's scenes summed to within 1.0 s of T, whatever total_duration
\* the response holds or omits.
C13_RunTargetEnforced ==
  t_stage = "result" =>
    /\ Abs(SumOf(t_scenes) - t_target) <= 1000
    /\ Abs(SumOf(TimedBefore) - t_target) <= 1000 => Abs(SumOf(t_scenes) - t_target) <= 10

\* The scenes of the analysis ScriptAnalyzerAgent.process returned.
ReturnedScenes == Get(t_output.value, "scenes").items

\* C22: every scene of the script analyzer's output, not only the last one,
\* has end_time = start_time + duration within 0.01 s, whatever timings the
\* model response held.  Read for the scenes whose three timings are numbers.
C22_EveryScenePunctual ==
  (t_stage \in {"returned", "result"} /\ ~t_output.raised) =>
    \A i \in DOMAIN ReturnedScenes :
      LET scene == ReturnedScenes[i]
      IN (/\ IsNumber(Get(scene, "start_time"))
          /\ IsNumber(Get(scene, "end_time"))
          /\ IsNumber(Get(scene, "duration"))) =>
           Abs(Get(scene, "end_time").n
               - (Get(scene, "start_time").n + Get(scene, "duration").n)) <= 10

\* The scene sum exceeds the target by a drift of at most 1.0 s and the last
\* scene is no longer than the drift.
Drift == SumOf(TimedBefore) - TimedTarget

LastWithinDrift ==
  /\ HasTimedTarget /\ IsNumber(Get(t_analysis, "total_duration"))
  /\ TimedBefore # <<>>
  /\ Drift > 0 /\ Drift <= 1000
  /\ IsNumber(Get(TimedBefore[Len(TimedBefore)], "duration"))
  /\ Get(TimedBefore[Len(TimedBefore)], "duration").n <= Drift

TechnicalScore(issues) == IF issues = 0 THEN 1000 ELSE IF issues <= 2 THEN 750 ELSE 600

\* both sub-scores weighted alike
OverallEvenWeights(technical_score, content_score) == 5 * technical_score + 5 * content_score

\* qa_agent.py 210: technical * 0.3 + content * 0.7, in ten-thousandths.
Overall(technical_score, content_score) == 3 * technical_score + 7 * content_score

\* qa_agent.py 211: round(overall, 2).  Half-way between two hundredths the
\* binary value of overall decides, so either neighbour can come out.
RoundOverall(overall) ==
  LET q == overall \div 100
      r == overall % 100
  IN IF r < 50 THEN {10 * q}
     ELSE IF r > 50 THEN {10 * (q + 1)}
     ELSE {10 * q, 10 * (q + 1)}

\* qa_agent.py 36-43, with an empty issues list
NotFoundReportWithoutIssues ==
  [approved |-> FALSE, quality_score |-> 0, issues |-> <<>>, technical_score |-> 0,
   content_score |-> 0]

\* qa_agent.py 36-43: the report on a video file that does not exist.
NotFoundReport ==
  [approved |-> FALSE, quality_score |-> 0, issues |-> <<"Video file not found">>,
   technical_score |-> 0, content_score |-> 0]

\* QAAgent.process is called.  The file is there or not, the technical
\* check finds 0, 1 or 3 issues, and _parse_json_response hands
\* _check_content_quality a dict with or without "scores" and "score", the
\* fallback, or a list.
QASpecInit ==
  LET absent == [type |-> "absent"]
      ratings == {absent, EmptyObj,
                  JObj([message_clarity |-> JNum(8000)]),
                  JObj([message_clarity |-> JNum(8800)]),
                  JObj([message_clarity |-> JNum(9000), pacing |-> JNum(10000)]),
                  JObj([message_clarity |-> JNum(50000)]),
                  JObj([message_clarity |-> JNum(-5000)]),
                  JObj([message_clarity |-> JStr("high")])}
      tops == {absent, JNum(500), JNum(900), JNum(7000), JStr("good")}
      members(scores, score) ==
        [key \in (IF scores = absent THEN {} ELSE {"scores"}) \cup
                 (IF score = absent THEN {} ELSE {"score"}) |->
           IF key = "scores" THEN scores ELSE score]
      assessments == {JObj(members(scores, score)) : scores \in ratings, score \in tops}
                       \cup {QAFallback(<<"prose">>), JArr(<<>>)}
  IN /\ OrchInit /\ ParseOff /\ StepOff /\ FillOff /\ TimingOff /\ FitOff /\ ClipOff /\ PathOff
     /\ FlowOff
     /\ q_input \in [exists : BOOLEAN, technical_issues : {0, 1, 3}, assessment : assessments]
     /\ q_stage = "input"
     /\ q_calls = <<>>
     /\ q_report = NoReport
     /\ q_result = NoQuality

\* QAAgent.process, lines 34-43: the file is not there.
ReviewMissingVideo ==
  /\ q_stage = "input"
  /\ ~q_input.exists
  /\ q_stage' = "report"
  /\ q_report' = NotFoundReport
  /\ UNCHANGED <<qaRest, q_input, q_calls, q_result>>

\* _check_content_quality (lines 193-204) and float(content_check.get(
\* "score", 0.5)) of line 209, on the parsed rubric response.
ContentScore(assessment) ==
  LET content_check == QAAfterParse(assessment)
  IN IF content_check.raised THEN content_check
     ELSE IF IsNumber(GetOr(content_check.value, "score", JNum(500)))
     THEN Returned(GetOr(content_check.value, "score", JNum(500)))
     ELSE Raised("ValueError")

\* QAAgent.process, lines 45-69, on a file that is there: the probe (its
\* errors become issues), the rubric call, the scores, the report.
ReviewVideo ==
  /\ q_stage = "input"
  /\ q_input.exists
  /\ \E answered \in BOOLEAN :
       LET technical_score == TechnicalScore(q_input.technical_issues)
           content == ContentScore(q_input.assessment)
       IN IF ~answered
          THEN /\ q_calls' = <<"video", "llm">>
               /\ q_stage' = "raised"
               /\ q_report' = q_report
          ELSE IF content.raised
          THEN /\ q_calls' = <<"video", "llm">>
               /\ q_stage' = "raised"
               /\ q_report' = q_report
          ELSE \E quality_score \in RoundOverall(Overall(technical_score, content.value.n)) :
                 /\ q_calls' = <<"video", "llm">>
                 /\ q_stage' = "report"
                 /\ q_report' =
                      [approved |-> quality_score >= 800,
                       quality_score |-> quality_score,
                       issues |->
                         LET found == GetOr(q_input.assessment, "issues", JArr(<<>>))
                         IN [i \in 1..q_input.technical_issues |-> "technical issue"]
                              \o [i \in 1..Len(found.items) |-> found.items[i].s],
                       technical_score |-> technical_score,
                       content_score |-> content.value.n]
  /\ UNCHANGED <<qaRest, q_input, q_result>>

\* workflow_orchestrator.py 152-176: the report goes into the success result.
ReportQuality ==
  /\ q_stage = "report"
  /\ q_stage' = "result"
  /\ q_result' = [success |-> TRUE, quality_score |-> q_report.quality_score,
                  approved |-> q_report.approved]
  /\ UNCHANGED <<qaRest, q_input, q_calls, q_report>>

QASpec == QASpecInit /\ [][ReviewMissingVideo \/ ReviewVideo \/ ReportQuality]_vars

(***************************************************************************)
(* Properties of the quality review.                                       *)
(***************************************************************************)
\* C14: for every report on an existing video, quality_score is
\* 0.3 * technical + 0.7 * content rounded to two decimals and approved is
\* true exactly when quality_score >= 0.8; the success result carries the
\* same two values.
C14_WeightedScore ==
  /\ (q_stage \in {"report", "result"} /\ q_input.exists) =>
       /\ q_report.quality_score % 10 = 0
       /\ Abs(10 * q_report.quality_score -
              (3 * q_report.technical_score + 7 * q_report.content_score)) <= 50
       /\ q_report.approved <=> q_report.quality_score >= 800
  /\ q_stage = "result" =>
       /\ q_result.quality_score = q_report.quality_score
       /\ q_result.approved = q_report.approved
       /\ q_result.approved <=> q_result.quality_score >= 800

\* No technical issue and a rating of 8.8: 0.3 + 0.616 = 0.916, reported as
\* 0.92 and approved.
C14_Witness ==
  /\ q_stage = "result"
  /\ q_input.exists
  /\ q_report.technical_score = 1000
  /\ q_report.content_score = 880
  /\ q_result.quality_score = 920
  /\ q_result.approved

\* C15: quality_score lies in [0, 1] for every report and every success
\* result, whatever ratings or top-level score the rubric response holds.
C15_ScoreInUnitInterval ==
  /\ q_stage \in {"report", "result"} =>
       q_report.quality_score >= 0 /\ q_report.quality_score <= 1000
  /\ q_stage = "result" => q_result.quality_score >= 0 /\ q_result.quality_score <= 1000

\* The rubric response could not be parsed: the assessment is the fallback.
RubricUnparseable == q_input.exists /\ q_input.assessment = QAFallback(<<"prose">>)

\* C24: when the rubric response is unparseable the content sub-score is
\* exactly 0.5, quality_score is 0.3 * technical + 0.35 (rounded to a
\* hundredth), at most 0.65, and the report is not approved.
C24_UnparseableNeverApproved ==
  /\ (q_stage \in {"report", "result"} /\ RubricUnparseable) =>
       /\ q_report.content_score = 500
       /\ Abs(10 * q_report.quality_score - (3 * q_report.technical_score + 3500)) <= 50
       /\ q_report.quality_score <= 650
       /\ ~q_report.approved
  /\ (q_stage = "result" /\ RubricUnparseable) =>
       /\ q_result.quality_score <= 650
       /\ ~q_result.approved

\* No technical issue and an unparseable rubric response: 0.65, not approved.
C24_Witness ==
  /\ q_stage = "result"
  /\ RubricUnparseable
  /\ q_report.technical_score = 1000
  /\ q_result.quality_score = 650
  /\ ~q_result.approved

\* C16: the review of a video path that does not exist does not raise,
\* issues no delegated call, and reports approved = False, quality_score =
\* 0.0 and an issues list with a "not found" entry.
C16_MissingVideoReport ==
  (q_stage # "input" /\ ~q_input.exists) =>
    /\ q_stage # "raised"
    /\ q_calls = <<>>
    /\ ~q_report.approved
    /\ q_report.quality_score = 0
    /\ \E i \in 1..Len(q_report.issues) : q_report.issues[i] = "Video file not found"

C16_Witness ==
  /\ q_stage = "report"
  /\ ~q_input.exists
  /\ q_calls = <<>>
  /\ q_report.issues = <<"Video file not found">>
  /\ ~q_report.approved

(***************************************************************************)
(* FitSpec: VideoEditorAgent._fit_to_1080p on an image clip of w x h       *)
(* pixels.  clip.resize and crop belong to the media library: resize(s)    *)
(* makes a frame of int(s * w) x int(s * h) pixels, crop cuts the columns  *)
(* int(x1)..int(x2) and the rows int(y1)..int(y2) out of it.               *)
(***************************************************************************)
\* video_editor.py 125: target_w, target_h = 1920, 1080
TargetW == 1920

TargetH == 1080

\* The products (target / d) * x that IEEE double arithmetic evaluates to
\* just under the integer they equal, as <<target, d, x>>: 1920 / 412 * 412
\* is 1919.9999999999998.
ShortProducts == {<<1080, 1070, 1070>>, <<1920, 11, 11>>, <<1920, 412, 412>>}

\* int((target / d) * x), computed in doubles
ScaledLength(target, d, x) ==
  IF <<target, d, x>> \in ShortProducts THEN (target * x) \div d - 1 ELSE (target * x) \div d

\* Lines 129-130: scale = max(target_w / w, target_h / h); clip.resize(scale)
ResizeToCover(size) ==
  LET w == size[1]
      h == size[2]
  IN IF TargetW * h >= TargetH * w
     THEN <<ScaledLength(TargetW, w, w), ScaledLength(TargetW, w, h)>>
     ELSE <<ScaledLength(TargetH, h, w), ScaledLength(TargetH, h, h)>>

\* Line 133: crop(clip, width, height, x_center = clip.w / 2, y_center =
\* clip.h / 2).  A frame one pixel short of the width keeps its columns.
CenterCrop(size) ==
  <<IF size[1] >= TargetW THEN TargetW ELSE size[1],
    IF size[2] >= TargetH THEN TargetH ELSE size[2]>>

FitSpecInit ==
  /\ OrchInit /\ ParseOff /\ StepOff /\ FillOff /\ TimingOff /\ QAOff /\ ClipOff /\ PathOff
  /\ FlowOff
  /\ v_size \in {11, 412, 800, 1000, 1600, 1920, 2520, 3440}
                  \X {11, 412, 600, 1000, 1070, 1080, 1440, 1920}
  /\ v_stage = "clip"
  /\ v_resized = <<0, 0>>
  /\ v_frame = <<0, 0>>

\* _fit_to_1080p, lines 120-134.
FitTo1080p ==
  /\ v_stage = "clip"
  /\ v_stage' = "fitted"
  /\ v_resized' = ResizeToCover(v_size)
  /\ v_frame' = CenterCrop(ResizeToCover(v_size))
  /\ UNCHANGED <<fitRest, v_size>>

FitSpec == FitSpecInit /\ [][FitTo1080p]_vars

(***************************************************************************)
(* Properties of the fit.                                                  *)
(***************************************************************************)
\* C17: for every source image size the scaled frame is at least 1920 wide
\* and 1080 high and the cropped frame is exactly 1920 x 1080.
C17_ExactResolution ==
  v_stage = "fitted" =>
    /\ v_resized[1] >= 1920
    /\ v_resized[2] >= 1080
    /\ v_frame = <<1920, 1080>>

(***************************************************************************)
(* ClipSpec: VideoEditorAgent._create_video_clips on its own                *)
(* (video_editor.py 62-118).  A scene is a dict with a scene_id and, when  *)
(* the model wrote one, a duration; a scene match is a dict with a         *)
(* scene_id and an image_id.  image_analysis holds one or two images the   *)
(* visual designer could open, so a file that still exists is an image     *)
(* ImageClip reads.  The scenes carry no transition_in: every clip fades   *)
(* in.                                                                     *)
(***************************************************************************)
\* _get_image_path, lines 108-118, for an image_id that is None or a number:
\* int(image_id) drops the fraction of a number; None and a position outside
\* image_analysis give None.
GetImagePath(image_id, image_analysis) ==
  IF image_id = JNull THEN JNull
  ELSE LET idx == IF image_id.n >= 0 THEN image_id.n \div 1000
                  ELSE -((-image_id.n) \div 1000)
       IN IF 0 <= idx /\ idx < Len(image_analysis)
          THEN Get(image_analysis[idx + 1], "path")
          ELSE JNull

\* Lines 69-106.  The loop runs the scenes in order: float() of a duration
\* that is None raises TypeError and ends the routine; a scene without a
\* match, or whose first match names no image file that exists, is skipped;
\* every other scene appends a clip.  No clip at the end: ValueError.
CreateVideoClips(scenes, scene_matches, image_analysis, files) ==
  LET RECURSIVE From(_, _)
      From(i, clips) ==
        IF i > Len(scenes)
        THEN IF clips = <<>> THEN Raised("ValueError: No video clips created")
             ELSE Returned(clips)
        ELSE LET scene == scenes[i]
                 scene_id == Get(scene, "scene_id")
                 duration == GetOr(scene, "duration", JNum(5000))
                 found == {j \in DOMAIN scene_matches :
                             Get(scene_matches[j], "scene_id") = scene_id}
                 visual == scene_matches[CHOOSE j \in found : \A m \in found : j <= m]
                 image_path == GetImagePath(Get(visual, "image_id"), image_analysis)
             IN IF ~IsNumber(duration) THEN Raised("TypeError")
                ELSE IF found = {} THEN From(i + 1, clips)
                ELSE IF image_path = JNull \/ image_path \notin files
                THEN From(i + 1, clips)
                ELSE From(i + 1, Append(clips, [scene |-> i, image |-> image_path,
                                                duration |-> duration.n,
                                                fadein |-> TRUE]))
  IN From(1, <<>>)

ClipSpecInit ==
  LET ids == {JNum(1000), JNum(2000)}
      scenes == {JObj([scene_id |-> id]) : id \in ids} \cup
                {JObj([scene_id |-> id, duration |-> d]) :
                   id \in ids, d \in {JNum(3000), JNull}}
      matches == {JObj([scene_id |-> id, image_id |-> image]) :
                    id \in ids,
                    image \in {JNull, JNum(-1000), JNum(0), JNum(1500)}}
      images == <<JObj([path |-> JStr("a.png")]), JObj([path |-> JStr("b.png")])>>
  IN /\ OrchInit /\ ParseOff /\ StepOff /\ FillOff /\ TimingOff /\ QAOff /\ FitOff /\ PathOff
     /\ FlowOff
     /\ c_scenes \in UNION {[1..n -> scenes] : n \in 0..MaxScenes}
     /\ c_scene_matches \in UNION {[1..n -> matches] : n \in 0..MaxMatches}
     /\ c_image_analysis \in {SubSeq(images, 1, n) : n \in 1..2}
     /\ c_files \in SUBSET {Get(c_image_analysis[i], "path") : i \in DOMAIN c_image_analysis}
     /\ c_stage = "input"
     /\ c_clips = Returned(JNull)

\* _create_video_clips, lines 62-106.
MakeClips ==
  /\ c_stage = "input"
  /\ c_clips' = CreateVideoClips(c_scenes, c_scene_matches, c_image_analysis, c_files)
  /\ c_stage' = "done"
  /\ UNCHANGED <<clipRest, c_scenes, c_scene_matches, c_image_analysis, c_files>>

ClipSpec == ClipSpecInit /\ [][MakeClips]_vars

(***************************************************************************)
(* Properties of the clips.                                                *)
(***************************************************************************)
\* The scenes with a scene match whose image_id is a position in
\* image_analysis and whose image file exists.
UsableScenes ==
  {i \in DOMAIN c_scenes :
     \E j \in DOMAIN c_scene_matches :
       /\ Get(c_scene_matches[j], "scene_id") = Get(c_scenes[i], "scene_id")
       /\ GetImagePath(Get(c_scene_matches[j], "image_id"), c_image_analysis) \in c_files}

NoClipsError == Raised("ValueError: No video clips created")

\* C20: the routine raises its no-clips error exactly when no scene yields a
\* usable clip; otherwise it returns one clip for each scene that has a
\* scene match whose image_id is a position in image_analysis and whose
\* image file exists, in scene order, and skips every other scene.
C20_ClipsForUsableScenes ==
  c_stage = "done" =>
    /\ (c_clips = NoClipsError) <=> (UsableScenes = {})
    /\ UsableScenes # {} =>
         /\ ~c_clips.raised
         /\ Len(c_clips.value) = Cardinality(UsableScenes)
         /\ \A k \in DOMAIN c_clips.value : c_clips.value[k].scene \in UsableScenes
         /\ \A k \in DOMAIN c_clips.value :
              k > 1 => c_clips.value[k - 1].scene < c_clips.value[k].scene

(***************************************************************************)
(* PathSpec: the files two concurrent runs write.  Each run writes its     *)
(* voiceover (audio_producer.py 72-79), then its video with the temporary  *)
(* audio file of the export (video_editor.py 155-174: the video has the    *)
(* voiceover attached), then its workflow document                         *)
(* (workflow_orchestrator.py 193-204), while the wall clock advances by    *)
(* half seconds.  A file name's timestamp is the whole second of the       *)
(* clock: int(time.time()) and strftime("%Y%m%d_%H%M%S").                  *)
(***************************************************************************)
PathSpecInit ==
  /\ OrchInit /\ ParseOff /\ StepOff /\ FillOff /\ TimingOff /\ QAOff /\ FitOff /\ ClipOff
  /\ FlowOff
  /\ w_clock = 0
  /\ w_at = [r \in ConcCallIds |-> 0]
  /\ w_written = [r \in ConcCallIds |-> {}]
  /\ w_stamps = [r \in ConcCallIds |-> {}]

\* Half a second passes.
Tick ==
  /\ w_clock < MaxTicks
  /\ w_clock' = w_clock + 1
  /\ UNCHANGED <<pathRest, w_at, w_written, w_stamps>>

\* audio_producer.py 74-79: data/output/audio/voiceover_{ts}.mp3
GenerateVoiceover(r) ==
  LET ts == w_clock \div 2
  IN /\ w_at[r] = 0
     /\ w_at' = [w_at EXCEPT ![r] = 1]
     /\ w_written' = [w_written EXCEPT ![r] =
                        @ \cup {[dir |-> "data/output/audio", file |-> "voiceover.mp3",
                                 stamp |-> ts]}]
     /\ w_stamps' = [w_stamps EXCEPT ![r] = @ \cup {ts}]
     /\ UNCHANGED <<pathRest, w_clock>>

\* video_editor.py 157-171: data/output/videos/final_ad_{ts}.mp4, and
\* temp_audiofile = "temp-audio.m4a" in the working directory.
ExportVideo(r) ==
  LET ts == w_clock \div 2
  IN /\ w_at[r] = 1
     /\ w_at' = [w_at EXCEPT ![r] = 2]
     /\ w_written' = [w_written EXCEPT ![r] =
                        @ \cup {[dir |-> "data/output/videos", file |-> "final_ad.mp4",
                                 stamp |-> ts],
                                [dir |-> ".", file |-> "temp-audio.m4a", stamp |-> -1]}]
     /\ w_stamps' = [w_stamps EXCEPT ![r] = @ \cup {ts}]
     /\ UNCHANGED <<pathRest, w_clock>>

\* workflow_orchestrator.py 195-202: data/output/workflows/workflow_{timestamp}.json
SaveWorkflowState(r) ==
  LET timestamp == w_clock \div 2
  IN /\ w_at[r] = 2
     /\ w_at' = [w_at EXCEPT ![r] = 3]
     /\ w_written' = [w_written EXCEPT ![r] =
                        @ \cup {[dir |-> "data/output/workflows", file |-> "workflow.json",
                                 stamp |-> timestamp]}]
     /\ w_stamps' = [w_stamps EXCEPT ![r] = @ \cup {timestamp}]
     /\ UNCHANGED <<pathRest, w_clock>>

PathSpec ==
  PathSpecInit /\ [][\/ Tick
                     \/ \E r \in ConcCallIds :
                          GenerateVoiceover(r) \/ ExportVideo(r) \/ SaveWorkflowState(r)]_vars

(***************************************************************************)
(* Properties of the written paths.                                        *)
(***************************************************************************)
\* C25: two concurrent runs write to the same file path only if their
\* timestamp-derived file names coincide: when the timestamps of the one
\* run's writes all differ from those of the other's, the sets of paths
\* they write (voiceover, video and its temporary audio file, workflow
\* document) are disjoint.
C25_DisjointPaths ==
  (w_stamps[1] \cap w_stamps[2] = {}) => (w_written[1] \cap w_written[2] = {})

(***************************************************************************)
(* FlowSpec: one run of generate_advertisement from its second step on,    *)
(* with the data the steps hand on: what the parse routines of the script  *)
(* analyzer and the visual designer returned, the scenes, the step outputs *)
(* and the clips.  The visual designer could open one image, a.png.  A     *)
(* step's calls to the model, the speech service and the media library can *)
(* fail; the script analyzer's response is there.                          *)
(***************************************************************************)
FlowSpecInit ==
  LET ids == {JNum(1000), JNum(2000)}
      scenes == {JObj([scene_id |-> id]) : id \in ids} \cup
                {JObj([scene_id |-> id, duration |-> JNull]) : id \in ids}
      matches == {JObj([scene_id |-> id, image_id |-> image]) :
                    id \in ids, image \in {JNull, JNum(0)}}
  IN /\ OrchInit /\ ParseOff /\ StepOff /\ FillOff /\ TimingOff /\ QAOff /\ FitOff
     /\ ClipOff /\ PathOff
     /\ r_analysis \in {RawResponseFallback(<<"prose">>)} \cup
          {JObj([scenes |-> JArr(seq)]) : seq \in UNION {[1..n -> scenes] : n \in 0..MaxScenes}}
     /\ r_scene_visuals \in {VisualFallback} \cup
          {JObj([scene_matches |-> JArr(seq)]) :
             seq \in UNION {[1..n -> matches] : n \in 0..MaxMatches}}
     /\ r_files \in SUBSET {JStr("a.png")}
     /\ r_at = "script_analysis"
     /\ r_scenes = JNull
     /\ r_outputs = JObj([creative_brief |-> EmptyObj])
     /\ r_result = NoOutcome

\* workflow_orchestrator.py 77-87: the script analyzer's process (the
\* default-fill of script_analyzer.py 43-49), the store and
\* scenes = script_analysis.get("scenes", []) or [].
AnalyzeScript ==
  LET script_analysis ==
        AnalysisAfterParse(r_analysis,
                           JObj([script |-> JStr("script"), creative_brief |-> EmptyObj,
                                 target_duration |-> JNum(DefaultTargetDuration)])).value
      got == GetOr(script_analysis, "scenes", JArr(<<>>))
  IN /\ r_at = "script_analysis"
     /\ r_outputs' = SetItem(r_outputs, "script_analysis", script_analysis)
     /\ r_scenes' = IF Truthy(got) THEN got ELSE JArr(<<>>)
     /\ r_at' = "visual_design"
     /\ UNCHANGED <<flowRest, r_analysis, r_scene_visuals, r_files, r_result>>

\* workflow_orchestrator.py 91-100 and visual_designer.py 36-52.
DesignVisuals ==
  /\ r_at = "visual_design"
  /\ \E answered \in BOOLEAN :
       LET visual_design ==
             VisualAfterParse(r_scene_visuals, JArr(<<JObj([path |-> JStr("a.png")])>>))
       IN IF answered /\ ~visual_design.raised
          THEN /\ r_outputs' = SetItem(r_outputs, "visual_design", visual_design.value)
               /\ r_at' = "audio_production"
               /\ r_result' = r_result
          ELSE /\ r_outputs' = r_outputs
               /\ r_at' = "done"
               /\ r_result' = [status |-> "failure", step |-> "visual_design",
                               error |-> "Exception"]
  /\ UNCHANGED <<flowRest, r_analysis, r_scene_visuals, r_files, r_scenes>>

\* workflow_orchestrator.py 105-115 and audio_producer.py 50-79.
ProduceAudio ==
  /\ r_at = "audio_production"
  /\ \E spoken \in BOOLEAN :
       IF spoken
       THEN /\ r_outputs' = SetItem(r_outputs, "audio_output",
                                    JObj([voiceover_path |-> JStr("voiceover.mp3")]))
            /\ r_at' = "video_editing"
            /\ r_result' = r_result
       ELSE /\ r_outputs' = r_outputs
            /\ r_at' = "done"
            /\ r_result' = [status |-> "failure", step |-> "audio_production",
                            error |-> "Exception"]
  /\ UNCHANGED <<flowRest, r_analysis, r_scene_visuals, r_files, r_scenes>>

\* workflow_orchestrator.py 120-131 and video_editor.py 37-60: the clips,
\* then the timeline and the export.
EditVideo ==
  /\ r_at = "video_editing"
  /\ \E exported \in BOOLEAN :
       LET visual_design == Get(r_outputs, "visual_design")
           scene_visuals == GetOr(visual_design, "scene_visuals", EmptyObj)
           got == GetOr(scene_visuals, "scene_matches", JArr(<<>>))
           scene_matches == IF Truthy(got) THEN got ELSE JArr(<<>>)
           image_analysis == GetOr(visual_design, "image_analysis", JArr(<<>>))
           video_clips == CreateVideoClips(r_scenes.items, scene_matches.items,
                                           image_analysis.items, r_files)
       IN IF video_clips.raised
          THEN /\ r_outputs' = r_outputs
               /\ r_at' = "done"
               /\ r_result' = [status |-> "failure", step |-> "video_editing",
                               error |-> video_clips.exc]
          ELSE IF exported
          THEN /\ r_outputs' = SetItem(r_outputs, "video_output",
                                       JObj([clips |-> JNum(1000 * Len(video_clips.value))]))
               /\ r_at' = "quality_assurance"
               /\ r_result' = r_result
          ELSE /\ r_outputs' = r_outputs
               /\ r_at' = "done"
               /\ r_result' = [status |-> "failure", step |-> "video_editing",
                               error |-> "Exception"]
  /\ UNCHANGED <<flowRest, r_analysis, r_scene_visuals, r_files, r_scenes>>

\* workflow_orchestrator.py 137-191: the review, the result and the save.
ReviewAndSave ==
  /\ r_at = "quality_assurance"
  /\ \E reviewed \in BOOLEAN, saved \in BOOLEAN :
       /\ r_outputs' = IF reviewed THEN SetItem(r_outputs, "qa_result", EmptyObj)
                       ELSE r_outputs
       /\ r_result' =
            IF ~reviewed
            THEN [status |-> "failure", step |-> "quality_assurance", error |-> "Exception"]
            ELSE IF ~saved
            THEN [status |-> "failure", step |-> "save", error |-> "Exception"]
            ELSE [status |-> "success", step |-> "None", error |-> "none"]
  /\ r_at' = "done"
  /\ UNCHANGED <<flowRest, r_analysis, r_scene_visuals, r_files, r_scenes>>

FlowSpec ==
  FlowSpecInit
    /\ [][AnalyzeScript \/ DesignVisuals \/ ProduceAudio \/ EditVideo \/ ReviewAndSave]_vars

(***************************************************************************)
(* Properties of the run's data flow.                                      *)
(***************************************************************************)
\* The script analyzer's response, or the visual designer's, fell back.
AnalysisFellBack == r_analysis = RawResponseFallback(<<"prose">>)

VisualsFellBack ==
  HasMember(r_outputs, "visual_design") /\ r_scene_visuals = VisualFallback

\* C26: a run in which the script analyzer's or the visual designer's
\* response fell back never succeeds: steps 3 and 4 (or 4) still run, the
\* run fails at video_editing with the no-clips error, and the failure
\* state's outputs are exactly creative_brief, script_analysis,
\* visual_design and audio_output; so every success rendered a scene.  Read
\* for runs whose steps 3 and 4 returned.
C26_FallbackFailsAtVideo ==
  r_at = "done" =>
    /\ (AnalysisFellBack \/ VisualsFellBack) =>
         /\ r_result.status = "failure"
         /\ HasMember(r_outputs, "audio_output") =>
              /\ r_result.step = "video_editing"
              /\ r_result.error = NoClipsError.exc
              /\ DOMAIN r_outputs.members =
                   {"creative_brief", "script_analysis", "visual_design", "audio_output"}
    /\ r_result.status = "success" =>
         /\ HasMember(r_outputs, "video_output")
         /\ Get(r_outputs, "video_output").members.clips.n >= 1000

====
